---------------------------- MODULE Spec2Model ----------------------------
(***************************************************************************)
(* VoidSpinner: the seeded generator, the fragment generator, the economic *)
(* formulas, the mutation engine (server/gameLogic.ts) and the request     *)
(* handlers with their storage (server/routes.ts, server/storage.ts).     *)
(*                                                                         *)
(* Numbers.  The evaluator has 32-bit integers and no floats, so every     *)
(* fractional quantity is kept as an integer numerator over a fixed        *)
(* denominator that is named where it is used:                             *)
(*   - a next() value is the new seed itself, over Modulus;                *)
(*   - a roll compared with the rarity ladder is in units of               *)
(*     1 / (RollScale * Modulus) = 1 / (729 * 10^6);                       *)
(*   - a success rate is in hundredths;                                    *)
(*   - a base stat is in halves (the stat multipliers 1.5 and 2.5).        *)
(* For every range the program uses, the integer form was compared with    *)
(* IEEE double arithmetic over all 233280 generator states.                *)
(***************************************************************************)
EXTENDS Integers, Sequences, FiniteSets, TLC

\* ------------------------------------------------------------------------
\* Bounds of the model
\* ------------------------------------------------------------------------

\* number of distinct start seeds of the module-level generator
NumSeeds == 2

\* browser sessions
NumSessions == 2

\* requests being handled at the same time
MaxInFlight == 2

\* requests received in one run
MaxRequests == 4

\* fragments ever created in one run
MaxFragments == 3

\* longest component list a mutate request carries
MaxComponents == 4

\* largest absolute value of an explicit seed argument
MaxSeedArg == 7

\* next() calls made on one generator instance
MaxCalls == 3

\* longest item list and largest weight given to weightedChoice
MaxItems == 3

MaxWeight == 2

\* fragments handed to the mutation engine in one run, and the seeds they
\* are generated from
MaxPool == 3

NumGenSeeds == 3

\* longest component list and highest mutationSlotsLevel of a quote
MaxQuoteComponents == 2

MaxLevel == 3

\* rollRarity draws counted in one step of the frequency count
DrawsPerStep == 16

\* requests one player makes, one after the other, in SpecPlay
MaxPlayRequests == 2

\* highest level a device upgrade is priced at in SpecCost
MaxUpgradeLevel == 10

\* ------------------------------------------------------------------------
\* Small helpers
\* ------------------------------------------------------------------------

Min(a, b) == IF a <= b THEN a ELSE b

Max(a, b) == IF a >= b THEN a ELSE b

\* JavaScript's % on integers: the result has the sign of the dividend
JsRem(a, m) == IF a >= 0 THEN a % m ELSE -((-a) % m)

RECURSIVE SumSeq(_)
SumSeq(s) == IF s = <<>> THEN 0 ELSE Head(s) + SumSeq(Tail(s))

RECURSIVE Concat(_)
Concat(ss) == IF ss = <<>> THEN <<>> ELSE Head(ss) \o Concat(Tail(ss))

Range(s) == {s[i] : i \in DOMAIN s}

\* ------------------------------------------------------------------------
\* VoidRNG (server/gameLogic.ts, identical in client/src/lib/rng.ts)
\* ------------------------------------------------------------------------

Modulus == 233280

Multiplier == 9301

Increment == 49297

\* constructor(seed?): this.seed = seed || Date.now().  `seedArg` is <<>>
\* when no argument is passed and <<n>> for the argument n; `now` is the
\* value of Date.now().
VoidRNG(seedArg, now) ==
    IF seedArg = <<>> THEN now
    ELSE IF seedArg[1] = 0 THEN now    \* 0 is falsy: seed || Date.now()
    ELSE seedArg[1]

\* (a * 9301) mod 233280 for a >= 0, reduced piecewise (9301 = 93 * 100 + 1)
\* so that no intermediate exceeds 32 bits
MulMod(a) ==
    LET r == a % Modulus
    IN  ((((r * 93) % Modulus) * 100) + r) % Modulus

\* faulty variant: the increment 49296, which shares the factor 2 with the
\* modulus
nextEvenIncrement(seed) ==
    IF seed >= 0 THEN (MulMod(seed) + Increment - 1) % Modulus
    ELSE JsRem(seed * Multiplier + Increment - 1, Modulus)

\* this.seed = (this.seed * 9301 + 49297) % 233280.  JavaScript's % keeps
\* the sign of the dividend x = seed * 9301 + 49297, which is negative
\* exactly when seed < -(49297 / 9301), i.e. seed <= -6.
next(seed) ==
    IF seed >= 0 THEN (MulMod(seed) + Increment) % Modulus
    ELSE IF -seed <= Increment \div Multiplier
         THEN JsRem(seed * Multiplier + Increment, Modulus)
    ELSE -((MulMod(-seed) - Increment) % Modulus)

\* random(min, max) = min + next() * (max - min), as numerator over Modulus
random(seed, min, max) ==
    LET s == next(seed)
    IN  [num |-> min * Modulus + s * (max - min), seed |-> s]

\* randomInt(min, max) = Math.floor(random(min, max + 1))
randomInt(seed, min, max) ==
    LET r == random(seed, min, max + 1)
    IN  [v |-> r.num \div Modulus, seed |-> r.seed]

\* the loop of weightedChoice: first item with randomValue <= currentWeight,
\* where randomValue = num / Modulus
RECURSIVE WalkItems(_, _, _, _)
WalkItems(items, i, currentWeight, num) ==
    IF i > Len(items) THEN items[Len(items)].item
    ELSE LET cw == currentWeight + items[i].weight
         IN  IF num <= cw * Modulus THEN items[i].item
             ELSE WalkItems(items, i + 1, cw, num)

weightedChoice(seed, items) ==
    LET totalWeight == SumSeq([i \in DOMAIN items |-> items[i].weight])
        r == random(seed, 0, totalWeight)
    IN  [item |-> WalkItems(items, 1, 0, r.num), seed |-> r.seed]

Rarities ==
    <<"common", "uncommon", "rare", "epic", "legendary", "mythic", "void_touched">>

RaritySet == Range(Rarities)

\* rolls and thresholds in units of 1 / (RollScale * Modulus):
\* 1/Modulus = RollScale units, 10^-6 = MicroScale units
RollScale == 1000000 \div 320

MicroScale == Modulus \div 320

\* the threshold ladder of rollRarity, in millionths, highest first
RarityLadder ==
    << [above |-> 999995, rarity |-> "void_touched"],
       [above |-> 999900, rarity |-> "mythic"],
       [above |-> 999000, rarity |-> "legendary"],
       [above |-> 990000, rarity |-> "epic"],
       [above |-> 950000, rarity |-> "rare"],
       [above |-> 800000, rarity |-> "uncommon"] >>

RECURSIVE LadderTier(_, _)
LadderTier(adjustedRoll, i) ==
    IF i > Len(RarityLadder) THEN "common"
    ELSE IF adjustedRoll > RarityLadder[i].above * MicroScale
         THEN RarityLadder[i].rarity
         ELSE LadderTier(adjustedRoll, i + 1)

\* rollRarity(bonusChance), bonusChance in millionths
rollRarity(seed, bonusChance) ==
    LET s == next(seed)
        adjustedRoll == Min(s * RollScale + bonusChance * MicroScale,
                            999999 * MicroScale)
    IN  [rarity |-> LadderTier(adjustedRoll, 1), seed |-> s]

\* the stat multipliers of generateBaseStats, in halves (1, 1.5, 2.5, 4, ...)
StatMultiplier(rarity) ==
    CASE rarity = "common" -> 2
      [] rarity = "uncommon" -> 3
      [] rarity = "rare" -> 5
      [] rarity = "epic" -> 8
      [] rarity = "legendary" -> 14
      [] rarity = "mythic" -> 24
      [] rarity = "void_touched" -> 40
      [] OTHER -> 2

\* faulty variant: the stat of a component is named power, as the first stat
\* of a base item is
generateBaseStatsSharedKey(seed, rarity, type) ==
    LET m == StatMultiplier(rarity)
    IN  CASE type = "base_item" ->
               LET p == randomInt(seed, 10, 50)
                   d == randomInt(p.seed, 5, 25)
                   s == randomInt(d.seed, 1, 10)
               IN  [stats |-> << [stat |-> "power", value |-> p.v * m],
                                 [stat |-> "defense", value |-> d.v * m],
                                 [stat |-> "speed", value |-> s.v * m] >>,
                    seed |-> s.seed]
          [] type = "component" ->
               LET e == randomInt(seed, 5, 20)
               IN  [stats |-> << [stat |-> "power", value |-> e.v * m] >>,
                    seed |-> e.seed]
          [] type = "modifier" ->
               LET e == randomInt(seed, 1, 15)
               IN  [stats |-> << [stat |-> "modifier", value |-> e.v * m] >>,
                    seed |-> e.seed]
          [] OTHER -> [stats |-> <<>>, seed |-> seed]

\* generateBaseStats(rarity, type): the stats in insertion order, each value
\* in halves; the draws happen in the order the object literal lists them
generateBaseStats(seed, rarity, type) ==
    LET m == StatMultiplier(rarity)
    IN  CASE type = "base_item" ->
               LET p == randomInt(seed, 10, 50)
                   d == randomInt(p.seed, 5, 25)
                   s == randomInt(d.seed, 1, 10)
               IN  [stats |-> << [stat |-> "power", value |-> p.v * m],
                                 [stat |-> "defense", value |-> d.v * m],
                                 [stat |-> "speed", value |-> s.v * m] >>,
                    seed |-> s.seed]
          [] type = "component" ->
               LET e == randomInt(seed, 5, 20)
               IN  [stats |-> << [stat |-> "enhancement", value |-> e.v * m] >>,
                    seed |-> e.seed]
          [] type = "modifier" ->
               LET e == randomInt(seed, 1, 15)
               IN  [stats |-> << [stat |-> "modifier", value |-> e.v * m] >>,
                    seed |-> e.seed]
          [] OTHER -> [stats |-> <<>>, seed |-> seed]

rarityModCounts(rarity) ==
    CASE rarity = "common" -> [min |-> 1, max |-> 1]
      [] rarity = "uncommon" -> [min |-> 1, max |-> 2]
      [] rarity = "rare" -> [min |-> 2, max |-> 2]
      [] rarity = "epic" -> [min |-> 2, max |-> 3]
      [] rarity = "legendary" -> [min |-> 3, max |-> 3]
      [] rarity = "mythic" -> [min |-> 3, max |-> 4]
      [] rarity = "void_touched" -> [min |-> 4, max |-> 4]
      [] OTHER -> [min |-> 1, max |-> 1]

possibleMods ==
    << "Increased Damage", "Increased Defense", "Increased Speed",
       "Flux Regeneration", "Spin Speed Bonus", "Critical Strike Chance",
       "Elemental Resistance", "Void Affinity", "Mutation Catalyst",
       "Shattering Efficiency" >>

\* faulty variant: the drawn name taken without the has() test
DrawModNameNoRetry(seed, selectedMods) ==
    LET r == randomInt(seed, 0, Len(possibleMods) - 1)
    IN  [name |-> possibleMods[r.v + 1], seed |-> r.seed]

\* do { modName = possibleMods[randomInt(0, 9)] } while (selectedMods.has(modName))
RECURSIVE DrawModName(_, _)
DrawModName(seed, selectedMods) ==
    LET r == randomInt(seed, 0, Len(possibleMods) - 1)
        modName == possibleMods[r.v + 1]
    IN  IF modName \in selectedMods THEN DrawModName(r.seed, selectedMods)
        ELSE [name |-> modName, seed |-> r.seed]

\* the for loop of generateImplicitMods
RECURSIVE DrawMods(_, _, _, _)
DrawMods(seed, rarity, modCount, mods) ==
    IF Len(mods) >= modCount THEN [mods |-> mods, seed |-> seed]
    ELSE LET n == DrawModName(seed, {mods[i].name : i \in DOMAIN mods})
             r == randomInt(n.seed, 5, 25)
             value == r.v * (IF rarity = "void_touched" THEN 3
                             ELSE IF rarity = "mythic" THEN 2 ELSE 1)
         IN  DrawMods(r.seed, rarity, modCount,
                      Append(mods, [name |-> n.name, value |-> value]))

generateImplicitMods(seed, rarity) ==
    LET c == rarityModCounts(rarity)
        modCount == randomInt(seed, c.min, c.max)
    IN  DrawMods(modCount.seed, rarity, modCount.v, <<>>)

baseItemNames ==
    << "Gauntlets", "Helmet", "Chestplate", "Boots", "Sword", "Shield",
       "Staff", "Bow", "Ring", "Amulet" >>

componentNames ==
    << "Void Iron", "Crystal Shard", "Essence Core", "Flux Coil",
       "Astral Fragment", "Quantum Dust" >>

modifierNames ==
    << "Essence of Haste", "Soul of Power", "Spirit of Defense",
       "Echo of Speed", "Whisper of Void" >>

rarityPrefixes(rarity) ==
    CASE rarity = "common" -> <<>>
      [] rarity = "uncommon" -> <<"Enhanced">>
      [] rarity = "rare" -> <<"Superior">>
      [] rarity = "epic" -> <<"Masterwork">>
      [] rarity = "legendary" -> <<"Ancient">>
      [] rarity = "mythic" -> <<"Primordial">>
      [] rarity = "void_touched" -> <<"Void-Touched">>

typeWeights ==
    << [item |-> "base_item", weight |-> 30],
       [item |-> "component", weight |-> 40],
       [item |-> "modifier", weight |-> 25],
       [item |-> "blueprint", weight |-> 5] >>

\* the name pool of the switch in generateFragment; <<>> for the default
NamePool(fragmentType) ==
    CASE fragmentType = "base_item" -> baseItemNames
      [] fragmentType = "component" -> componentNames
      [] fragmentType = "modifier" -> modifierNames
      [] OTHER -> <<>>

\* faulty variant: the rarity rolled before the type is chosen
generateFragmentRarityFirst(seed, rarityOddsLevel) ==
    LET rarityBonus == (rarityOddsLevel - 1) * 500
        r == rollRarity(seed, rarityBonus)
        t == weightedChoice(r.seed, typeWeights)
        b == generateBaseStats(t.seed, r.rarity, t.item)
        m == generateImplicitMods(b.seed, r.rarity)
        pool == NamePool(t.item)
        n == IF pool = <<>> THEN [v |-> 0, seed |-> m.seed]
             ELSE randomInt(m.seed, 0, Len(pool) - 1)
        baseName == IF pool = <<>> THEN "Mysterious Blueprint" ELSE pool[n.v + 1]
    IN  [draft |-> [name |-> rarityPrefixes(r.rarity) \o <<baseName>>,
                    type |-> t.item,
                    rarity |-> r.rarity,
                    baseStats |-> b.stats,
                    implicitMods |-> m.mods,
                    affixes |-> <<>>,
                    isCorrupted |-> FALSE,
                    quantity |-> 1],
         seed |-> n.seed]

\* generateFragment(gameState) on the generator state `seed`.  A name is the
\* sequence of its space-separated parts.
generateFragment(seed, rarityOddsLevel) ==
    LET t == weightedChoice(seed, typeWeights)
        rarityBonus == (rarityOddsLevel - 1) * 500       \* 0.0005 in millionths
        r == rollRarity(t.seed, rarityBonus)
        b == generateBaseStats(r.seed, r.rarity, t.item)
        m == generateImplicitMods(b.seed, r.rarity)
        pool == NamePool(t.item)
        n == IF pool = <<>> THEN [v |-> 0, seed |-> m.seed]
             ELSE randomInt(m.seed, 0, Len(pool) - 1)
        baseName == IF pool = <<>> THEN "Mysterious Blueprint" ELSE pool[n.v + 1]
    IN  [draft |-> [name |-> rarityPrefixes(r.rarity) \o <<baseName>>,
                    type |-> t.item,
                    rarity |-> r.rarity,
                    baseStats |-> b.stats,
                    implicitMods |-> m.mods,
                    affixes |-> <<>>,
                    isCorrupted |-> FALSE,
                    quantity |-> 1],
         seed |-> n.seed]


\* ------------------------------------------------------------------------
\* Economic formulas (server/gameLogic.ts)
\* ------------------------------------------------------------------------

ShatterMultiplier(rarity) ==
    CASE rarity = "common" -> 1
      [] rarity = "uncommon" -> 3
      [] rarity = "rare" -> 8
      [] rarity = "epic" -> 20
      [] rarity = "legendary" -> 50
      [] rarity = "mythic" -> 125
      [] rarity = "void_touched" -> 300
      [] OTHER -> 1

\* faulty variant: the quantity left out of the product
calculateShatterValueSingle(fragment) ==
    5 * ShatterMultiplier(fragment.rarity)

\* Math.floor(baseValue * multiplier * fragment.quantity), baseValue = 5
calculateShatterValue(fragment) ==
    5 * ShatterMultiplier(fragment.rarity) * fragment.quantity

UpgradeTypes == {"spinSpeed", "rarityOdds", "fluxCost", "mutationSlots"}

baseCosts(upgradeType) ==
    CASE upgradeType = "spinSpeed" -> 500
      [] upgradeType = "rarityOdds" -> 1200
      [] upgradeType = "fluxCost" -> 800
      [] upgradeType = "mutationSlots" -> 2500
      [] OTHER -> 500                      \* baseCosts[upgradeType] || 500

currentLevel(gameState, upgradeType) ==
    CASE upgradeType = "spinSpeed" -> gameState.spinSpeedLevel
      [] upgradeType = "rarityOdds" -> gameState.rarityOddsLevel
      [] upgradeType = "fluxCost" -> gameState.fluxCostLevel
      [] upgradeType = "mutationSlots" -> gameState.mutationSlotsLevel
      [] OTHER -> 1

RECURSIVE Pow(_, _)
Pow(b, e) == IF e = 0 THEN 1 ELSE b * Pow(b, e - 1)

\* faulty variant: every track priced at the level of spinSpeed
calculateDeviceUpgradeCostSpinLevel(gameState, upgradeType) ==
    LET e == gameState.spinSpeedLevel - 1
    IN  (baseCosts(upgradeType) * Pow(3, e)) \div Pow(2, e)

\* Math.floor(baseCost * Math.pow(1.5, currentLevel - 1))
calculateDeviceUpgradeCost(gameState, upgradeType) ==
    LET e == currentLevel(gameState, upgradeType) - 1
    IN  (baseCosts(upgradeType) * Pow(3, e)) \div Pow(2, e)

\* Math.max(25 - (gameState.fluxCostLevel - 1) * 5, 5), inline in POST /api/spin
spinCost(gameState) == Max(25 - (gameState.fluxCostLevel - 1) * 5, 5)

\* getDeviceStats(gameState) of the server: rarityBonus in millionths
\* (0.0005 a level), spinSpeed in tenths (0.2 a level)
getDeviceStats(gameState) ==
    [spinSpeed |-> 10 + (gameState.spinSpeedLevel - 1) * 2,
     rarityBonus |-> (gameState.rarityOddsLevel - 1) * 500,
     fluxCostReduction |-> (gameState.fluxCostLevel - 1) * 5,
     mutationSlots |-> 2 + gameState.mutationSlotsLevel]

\* getDeviceStats(gameState) of the client: rarityBonus in millionths
\* (0.05 a level), spinSpeed in tenths
clientGetDeviceStats(gameState) ==
    [spinSpeed |-> 10 + (gameState.spinSpeedLevel - 1) * 2,
     rarityBonus |-> (gameState.rarityOddsLevel - 1) * 50000,
     fluxCost |-> Max(25 - (gameState.fluxCostLevel - 1) * 5, 5),
     mutationSlots |-> 2 + gameState.mutationSlotsLevel]

\* ------------------------------------------------------------------------
\* Mutation engine (server/gameLogic.ts)
\* ------------------------------------------------------------------------

\* raritySuccessRates, in hundredths; || 0.5 for a rarity not in the table
raritySuccessRates(rarity) ==
    CASE rarity = "common" -> 85
      [] rarity = "uncommon" -> 75
      [] rarity = "rare" -> 65
      [] rarity = "epic" -> 50
      [] rarity = "legendary" -> 35
      [] rarity = "mythic" -> 20
      [] rarity = "void_touched" -> 10
      [] OTHER -> 50

\* faulty variant: the 0.05 floor applied after the device bonus is added
calculateMutationSuccessRateLateFloor(baseFragment, components, gameState) ==
    LET complexityPenalty == (Len(components) - 1) * 10
        deviceBonus == (gameState.mutationSlotsLevel - 1) * 5
        baseRate == Max(raritySuccessRates(baseFragment.rarity) - complexityPenalty
                            + deviceBonus, 5)
    IN  Min(baseRate, 95)

\* calculateMutationSuccessRate, in hundredths
calculateMutationSuccessRate(baseFragment, components, gameState) ==
    LET complexityPenalty == (Len(components) - 1) * 10
        baseRate == Max(raritySuccessRates(baseFragment.rarity) - complexityPenalty, 5)
        deviceBonus == (gameState.mutationSlotsLevel - 1) * 5
    IN  Min(baseRate + deviceBonus, 95)

CostMultiplier(rarity) ==
    CASE rarity = "common" -> 1
      [] rarity = "uncommon" -> 2
      [] rarity = "rare" -> 4
      [] rarity = "epic" -> 8
      [] rarity = "legendary" -> 16
      [] rarity = "mythic" -> 32
      [] rarity = "void_touched" -> 64
      [] OTHER -> 1

\* faulty variant: a component charged like a base (the factor 0.5 dropped)
calculateMutationCostFullPrice(baseFragment, components) ==
    100 + 100 * CostMultiplier(baseFragment.rarity)
        + SumSeq([i \in DOMAIN components |->
                    100 * CostMultiplier(components[i].rarity)])

\* calculateMutationCost: baseCost = 100; each component adds
\* baseCost * 0.5 * multiplier; Math.floor of a whole number
calculateMutationCost(baseFragment, components) ==
    100 + 100 * CostMultiplier(baseFragment.rarity)
        + SumSeq([i \in DOMAIN components |->
                    (100 * CostMultiplier(components[i].rarity)) \div 2])

\* Object.keys(component.baseStats).forEach: stat in mutatedFragment.baseStats
\* => += Math.floor(component.baseStats[stat] * 0.5); values are in halves
RECURSIVE EnhanceStats(_, _, _)
EnhanceStats(stats, componentStats, k) ==
    IF k > Len(componentStats) THEN stats
    ELSE LET c == componentStats[k]
         IN  EnhanceStats(
                 [j \in DOMAIN stats |->
                     IF stats[j].stat = c.stat
                     THEN [stat |-> stats[j].stat,
                           value |-> stats[j].value + 2 * (c.value \div 4)]
                     ELSE stats[j]],
                 componentStats, k + 1)

\* the affixes one component contributes, in its mod order.  A component
\* name and a mod name joined by " - " is kept as the pair of its parts.
\* Math.floor(mod.value * 0.7) is (7 * value) \div 10 for value < 90.
ComponentAffixes(component) ==
    IF component.type = "component"
    THEN [j \in DOMAIN component.implicitMods |->
             [name |-> <<component.name, component.implicitMods[j].name>>,
              value |-> (7 * component.implicitMods[j].value) \div 10,
              source |-> "mutation"]]
    ELSE IF component.type = "modifier"
    THEN [j \in DOMAIN component.implicitMods |->
             [name |-> <<component.name, component.implicitMods[j].name>>,
              value |-> component.implicitMods[j].value,
              source |-> "mutation"]]
    ELSE <<>>

\* faulty variant: a component's affixes put in front of those already there
RECURSIVE ApplyComponentsPrepend(_, _, _)
ApplyComponentsPrepend(mutatedFragment, components, k) ==
    IF k > Len(components) THEN mutatedFragment
    ELSE LET c == components[k]
             stats == IF c.type = "component"
                      THEN EnhanceStats(mutatedFragment.baseStats, c.baseStats, 1)
                      ELSE mutatedFragment.baseStats
         IN  ApplyComponentsPrepend(
                 [mutatedFragment EXCEPT
                     !.baseStats = stats,
                     !.affixes = ComponentAffixes(c) \o mutatedFragment.affixes],
                 components, k + 1)

\* components.forEach of performMutation
RECURSIVE ApplyComponents(_, _, _)
ApplyComponents(mutatedFragment, components, k) ==
    IF k > Len(components) THEN mutatedFragment
    ELSE LET c == components[k]
             stats == IF c.type = "component"
                      THEN EnhanceStats(mutatedFragment.baseStats, c.baseStats, 1)
                      ELSE mutatedFragment.baseStats
         IN  ApplyComponents(
                 [mutatedFragment EXCEPT
                     !.baseStats = stats,
                     !.affixes = mutatedFragment.affixes \o ComponentAffixes(c)],
                 components, k + 1)

\* rarityOrder.indexOf(rarity), 0 when absent (JavaScript's -1)
RarityIndex(rarity) ==
    IF rarity \in RaritySet
    THEN CHOOSE i \in DOMAIN Rarities : Rarities[i] = rarity
    ELSE 0

\* faulty variant: the name prefixed whenever the draw succeeds, at the top
\* tier too
performMutationAlwaysRenames(baseFragment, components, now) ==
    LET mutationRng == VoidRNG(<<>>, now)
        template == [baseFragment EXCEPT
                        !.id = 0,
                        !.name = <<"Mutated">> \o baseFragment.name]
        applied == ApplyComponents(template, components, 1)
        evolve == random(mutationRng, 0, 1).num * 10 < Modulus
        currentIndex == RarityIndex(applied.rarity)
    IN  IF evolve /\ currentIndex >= 1 /\ currentIndex < Len(Rarities)
        THEN [applied EXCEPT !.rarity = Rarities[currentIndex + 1],
                             !.name = <<"Evolved">> \o applied.name]
        ELSE IF evolve
        THEN [applied EXCEPT !.name = <<"Evolved">> \o applied.name]
        ELSE applied

\* performMutation(baseFragment, components, gameState) called at time
\* `now`: mutationRng = new VoidRNG() is seeded with Date.now(), and
\* mutationRng.random() < 0.1 decides the rarity upgrade.
performMutation(baseFragment, components, now) ==
    LET mutationRng == VoidRNG(<<>>, now)
        template == [baseFragment EXCEPT
                        !.id = 0,
                        !.name = <<"Mutated">> \o baseFragment.name]
        applied == ApplyComponents(template, components, 1)
        evolve == random(mutationRng, 0, 1).num * 10 < Modulus
        currentIndex == RarityIndex(applied.rarity)
    IN  IF evolve /\ currentIndex >= 1 /\ currentIndex < Len(Rarities)
        THEN [applied EXCEPT !.rarity = Rarities[currentIndex + 1],
                             !.name = <<"Evolved">> \o applied.name]
        ELSE applied

\* ------------------------------------------------------------------------
\* State of the server
\* ------------------------------------------------------------------------

VARIABLES
    sessionUser,    \* req.session.userId of each session, 0 while unset
    gameStates,     \* table game_states, rows in insertion order
    fragments,      \* table fragments, id -> row
    nextFragId,     \* fragments created so far (ids are fresh per insert)
    listings,       \* table marketplace_listings, <<type, rarity>> -> row
    rngSeed,        \* seed of the module-level `rng` of gameLogic.ts
    reqs,           \* the requests being handled, one per slot
    received,       \* requests received so far
    resp,           \* the last response sent
    \* the function-level specifications below use their own state
    genA, genB,     \* two VoidRNG instances and the values they returned
    choice,         \* one call of weightedChoice
    cycle,          \* repeated rollRarity(0) on one generator, with a tally
    pool,           \* fragments available to the mutation engine
    last            \* the last call of the mutation engine

serverVars == <<sessionUser, gameStates, fragments, nextFragId, listings,
                rngSeed, reqs, received, resp>>

rngVars == <<genA, genB, choice>>

mutationVars == <<pool, last>>

vars == <<serverVars, rngVars, cycle, mutationVars>>

\* the value of a variable in a specification that does not use it
Unused == "unused"

Sessions == 1 .. NumSessions

Slots == 1 .. MaxInFlight

\* values of Date.now() at start-up; the first next() of a generator seeded
\* with the time only has to yield some state of the generator
StartSeedList == <<1174, 7811, 1173, 175, 2180, 65556>>

StartSeeds == {StartSeedList[k] : k \in 1 .. Min(NumSeeds, Len(StartSeedList))}

\* values of Date.now() at a call of performMutation
ClockValues == {1, 20}

Idle == [pc |-> "idle"]

\* the result of a lookup that finds nothing (undefined)
NoRow == [id |-> 0]

\* the same for a marketplace listing, whose id is <<type, rarity>>
NoListing == [id |-> <<>>]

\* ------------------------------------------------------------------------
\* DatabaseStorage (server/storage.ts): every call is one statement
\* ------------------------------------------------------------------------

baseListings ==
    << [fragmentType |-> "component", rarity |-> "common", basePrice |-> 10, demand |-> 100],
       [fragmentType |-> "component", rarity |-> "uncommon", basePrice |-> 50, demand |-> 110],
       [fragmentType |-> "component", rarity |-> "rare", basePrice |-> 200, demand |-> 120],
       [fragmentType |-> "component", rarity |-> "epic", basePrice |-> 800, demand |-> 150],
       [fragmentType |-> "component", rarity |-> "legendary", basePrice |-> 3000, demand |-> 200],
       [fragmentType |-> "modifier", rarity |-> "common", basePrice |-> 15, demand |-> 90],
       [fragmentType |-> "modifier", rarity |-> "uncommon", basePrice |-> 75, demand |-> 100],
       [fragmentType |-> "modifier", rarity |-> "rare", basePrice |-> 300, demand |-> 130],
       [fragmentType |-> "modifier", rarity |-> "epic", basePrice |-> 1200, demand |-> 180],
       [fragmentType |-> "base_item", rarity |-> "rare", basePrice |-> 500, demand |-> 110],
       [fragmentType |-> "base_item", rarity |-> "epic", basePrice |-> 2000, demand |-> 140] >>

ListingIds == {<<baseListings[k].fragmentType, baseListings[k].rarity>> : k \in DOMAIN baseListings}

\* initializeMarketplace: demand in hundredths
initializeMarketplace ==
    [id \in ListingIds |->
        LET l == baseListings[CHOOSE k \in DOMAIN baseListings :
                     id = <<baseListings[k].fragmentType, baseListings[k].rarity>>]
        IN  [id |-> id,
             fragmentType |-> l.fragmentType,
             rarity |-> l.rarity,
             basePrice |-> l.basePrice,
             currentPrice |-> l.basePrice,
             demand |-> l.demand,
             supply |-> 100]]

\* getGameState: the first row of the user
getGameState(userId) ==
    LET rows == {k \in DOMAIN gameStates : gameStates[k].userId = userId}
    IN  IF rows = {} THEN NoRow
        ELSE gameStates[CHOOSE k \in rows : \A j \in rows : k <= j]

\* createGameState with the values GET /api/gamestate passes
createGameState(userId) ==
    Append(gameStates,
           [id |-> Len(gameStates) + 1,
            userId |-> userId,
            flux |-> 1000,
            totalSpins |-> 0,
            spinSpeedLevel |-> 1,
            rarityOddsLevel |-> 1,
            fluxCostLevel |-> 1,
            mutationSlotsLevel |-> 1])

\* { ...row, ...updates }
Merge(row, updates) ==
    [f \in DOMAIN row |-> IF f \in DOMAIN updates THEN updates[f] ELSE row[f]]

\* updateGameState: UPDATE game_states SET updates WHERE user_id = userId
updateGameState(userId, updates) ==
    [k \in DOMAIN gameStates |->
        IF gameStates[k].userId = userId
        THEN Merge(gameStates[k], updates)
        ELSE gameStates[k]]

\* faulty variant: the fragments of every game state
getFragmentsOfAll(gameStateId) ==
    {fragments[id] : id \in DOMAIN fragments}

\* getFragments(gameStateId)
getFragments(gameStateId) ==
    {fragments[id] : id \in {k \in DOMAIN fragments :
                                 fragments[k].gameStateId = gameStateId}}

\* fragments.find(f => f.id === id)
FindFragment(rows, id) ==
    IF \E f \in rows : f.id = id
    THEN CHOOSE f \in rows : f.id = id
    ELSE NoRow

\* the row createFragment stores for the fields its callers pass
FragmentRow(id, gameStateId, draft) ==
    [id |-> id,
     gameStateId |-> gameStateId,
     name |-> draft.name,
     type |-> draft.type,
     rarity |-> draft.rarity,
     baseStats |-> draft.baseStats,
     implicitMods |-> draft.implicitMods,
     affixes |-> draft.affixes,
     isCorrupted |-> draft.isCorrupted,
     quantity |-> draft.quantity]

\* createFragment: INSERT with a fresh id
createFragment(gameStateId, draft) ==
    LET id == nextFragId + 1
    IN  fragments @@ (id :> FragmentRow(id, gameStateId, draft))

\* deleteFragment: DELETE FROM fragments WHERE id = fragmentId
deleteFragment(fragmentId) ==
    [id \in DOMAIN fragments \ {fragmentId} |-> fragments[id]]

\* updateMarketplaceListing(fragmentType, rarity, updates)
updateMarketplaceListing(fragmentType, rarity, updates) ==
    [listings EXCEPT ![<<fragmentType, rarity>>] = Merge(@, updates)]

\* ------------------------------------------------------------------------
\* Request handlers (server/routes.ts).  A handler runs from one await of a
\* storage call to the next as one step; the steps of different requests
\* interleave.
\* ------------------------------------------------------------------------

\* res.status(status).json({ message }): the request of slot i is answered
RespondWith(i, kind, session, status, message) ==
    /\ reqs' = [reqs EXCEPT ![i] = Idle]
    /\ resp' = [n |-> resp.n + 1, kind |-> kind, session |-> session,
                status |-> status, message |-> message]
    /\ UNCHANGED <<rngVars, cycle, mutationVars>>

\* the same where the model does not keep the message
Respond(i, kind, session, status) == RespondWith(i, kind, session, status, "")

\* the handler of slot i goes on to its next storage call
Continue(i, r) ==
    /\ reqs' = [reqs EXCEPT ![i] = r]
    /\ resp' = resp
    /\ UNCHANGED <<rngVars, cycle, mutationVars>>

\* a request can be received into slot i
Free(i) == reqs[i].pc = "idle" /\ received < MaxRequests

\* requests in flight that may still create a fragment
Creators == {i \in Slots : reqs[i].pc # "idle" /\ reqs[i].kind \in {"spin", "mutate"}}

CanCreate == nextFragId + Cardinality(Creators) < MaxFragments

\* ids a request can name: the fragments created so far
KnownIds == 1 .. nextFragId

\* ---- GET /api/gamestate ----

GameStateRequest(i, s) ==
    /\ Free(i)
    /\ received' = received + 1
    /\ sessionUser' = [sessionUser EXCEPT ![s] = s]    \* createUser when unset
    /\ Continue(i, [pc |-> "gamestate_get", kind |-> "gamestate", userId |-> s])
    /\ UNCHANGED <<gameStates, fragments, nextFragId, listings, rngSeed>>

GameStateGet(i) ==
    /\ reqs[i].pc = "gamestate_get"
    /\ IF getGameState(reqs[i].userId).id = 0
       THEN Continue(i, [reqs[i] EXCEPT !.pc = "gamestate_create"])
       ELSE Respond(i, "gamestate", reqs[i].userId, 200)
    /\ UNCHANGED <<sessionUser, gameStates, fragments, nextFragId, listings,
                   rngSeed, received>>

GameStateCreate(i) ==
    /\ reqs[i].pc = "gamestate_create"
    /\ gameStates' = createGameState(reqs[i].userId)
    /\ Respond(i, "gamestate", reqs[i].userId, 200)
    /\ UNCHANGED <<sessionUser, fragments, nextFragId, listings, rngSeed, received>>

\* ---- POST /api/spin ----

\* faulty variant: a balance equal to the spin cost is turned away
SpinRequestStrict(i, s) ==
    /\ Free(i)
    /\ CanCreate
    /\ received' = received + 1
    /\ LET userId == sessionUser[s]
           gameState == getGameState(userId)
       IN  IF userId = 0 THEN Respond(i, "spin", s, 401)
           ELSE IF gameState.id = 0 THEN Respond(i, "spin", s, 404)
           ELSE IF gameState.flux <= spinCost(gameState)
           THEN RespondWith(i, "spin", s, 400, "Insufficient flux")
           ELSE Continue(i, [pc |-> "spin_create", kind |-> "spin",
                             userId |-> userId, gameState |-> gameState])
    /\ UNCHANGED <<sessionUser, gameStates, fragments, nextFragId, listings, rngSeed>>

SpinRequest(i, s) ==
    /\ Free(i)
    /\ CanCreate
    /\ received' = received + 1
    /\ LET userId == sessionUser[s]
           gameState == getGameState(userId)
       IN  IF userId = 0 THEN Respond(i, "spin", s, 401)
           ELSE IF gameState.id = 0 THEN Respond(i, "spin", s, 404)
           ELSE IF gameState.flux < spinCost(gameState)
           THEN RespondWith(i, "spin", s, 400, "Insufficient flux")
           ELSE Continue(i, [pc |-> "spin_create", kind |-> "spin",
                             userId |-> userId, gameState |-> gameState])
    /\ UNCHANGED <<sessionUser, gameStates, fragments, nextFragId, listings, rngSeed>>

SpinCreate(i) ==
    /\ reqs[i].pc = "spin_create"
    /\ LET g == generateFragment(rngSeed, reqs[i].gameState.rarityOddsLevel)
       IN  /\ rngSeed' = g.seed
           /\ fragments' = createFragment(reqs[i].gameState.id, g.draft)
           /\ nextFragId' = nextFragId + 1
    /\ Continue(i, [reqs[i] EXCEPT !.pc = "spin_update"])
    /\ UNCHANGED <<sessionUser, gameStates, listings, received>>

SpinUpdate(i) ==
    /\ reqs[i].pc = "spin_update"
    /\ LET gameState == reqs[i].gameState
       IN  gameStates' = updateGameState(reqs[i].userId,
               [flux |-> gameState.flux - spinCost(gameState),
                totalSpins |-> gameState.totalSpins + 1])
    /\ Respond(i, "spin", reqs[i].userId, 200)
    /\ UNCHANGED <<sessionUser, fragments, nextFragId, listings, rngSeed, received>>

\* ---- GET /api/fragments and GET /api/marketplace (read only) ----

FragmentsRequest(i, s) ==
    /\ Free(i)
    /\ received' = received + 1
    /\ LET userId == sessionUser[s]
       IN  IF userId = 0 THEN Respond(i, "fragments", s, 401)
           ELSE IF getGameState(userId).id = 0 THEN Respond(i, "fragments", s, 404)
           ELSE Respond(i, "fragments", s, 200)
    /\ UNCHANGED <<sessionUser, gameStates, fragments, nextFragId, listings, rngSeed>>

MarketplaceRequest(i, s) ==
    /\ Free(i)
    /\ received' = received + 1
    /\ Respond(i, "marketplace", s, 200)
    /\ UNCHANGED <<sessionUser, gameStates, fragments, nextFragId, listings, rngSeed>>

\* ---- POST /api/fragments/:id/shatter ----

ShatterRequest(i, s, fragmentId) ==
    /\ Free(i)
    /\ received' = received + 1
    /\ LET userId == sessionUser[s]
           gameState == getGameState(userId)
       IN  IF userId = 0 THEN Respond(i, "shatter", s, 401)
           ELSE IF gameState.id = 0 THEN Respond(i, "shatter", s, 404)
           ELSE Continue(i, [pc |-> "shatter_find", kind |-> "shatter",
                             userId |-> userId, gameState |-> gameState,
                             fragmentId |-> fragmentId])
    /\ UNCHANGED <<sessionUser, gameStates, fragments, nextFragId, listings, rngSeed>>

ShatterFind(i) ==
    /\ reqs[i].pc = "shatter_find"
    /\ LET fragment == FindFragment(getFragments(reqs[i].gameState.id),
                                    reqs[i].fragmentId)
       IN  IF fragment.id = 0 THEN Respond(i, "shatter", reqs[i].userId, 404)
           ELSE Continue(i, [pc |-> "shatter_update", kind |-> "shatter",
                             userId |-> reqs[i].userId,
                             gameState |-> reqs[i].gameState,
                             fragment |-> fragment,
                             fluxGained |-> calculateShatterValue(fragment)])
    /\ UNCHANGED <<sessionUser, gameStates, fragments, nextFragId, listings,
                   rngSeed, received>>

ShatterUpdate(i) ==
    /\ reqs[i].pc = "shatter_update"
    /\ gameStates' = updateGameState(reqs[i].userId,
           [flux |-> reqs[i].gameState.flux + reqs[i].fluxGained])
    /\ Continue(i, [reqs[i] EXCEPT !.pc = "shatter_delete"])
    /\ UNCHANGED <<sessionUser, fragments, nextFragId, listings, rngSeed, received>>

ShatterDelete(i) ==
    /\ reqs[i].pc = "shatter_delete"
    /\ fragments' = deleteFragment(reqs[i].fragment.id)
    /\ Respond(i, "shatter", reqs[i].userId, 200)
    /\ UNCHANGED <<sessionUser, gameStates, nextFragId, listings, rngSeed, received>>

\* ---- POST /api/sell ----

\* the value of fragmentId when the body carries none
Missing == 0 - 1

\* faulty variant: the sale priced at the listing's basePrice
SalePriceBase(listing, fragment) ==
    LET basePrice == IF listing.id = <<>> THEN 10 ELSE listing.basePrice
    IN  Max(1, basePrice * fragment.quantity)

\* Math.max(1, Math.round(basePrice * quantity)), basePrice the listing's
\* currentPrice or the fallback 10
SalePrice(listing, fragment) ==
    LET basePrice == IF listing.id = <<>> THEN 10 ELSE listing.currentPrice
    IN  Max(1, basePrice * fragment.quantity)

\* faulty variant: the price moved with the demand, 1 + 0.01 * (newDemand - 1)
ListingUpdatesWithDemand(listing) ==
    LET newSupply == Max(0, listing.supply - 1)
        newDemand == Min(300, listing.demand + 1)
        newPrice == Max(1, (2 * listing.currentPrice * (9900 + newDemand) + 10000)
                              \div 20000)
    IN  [supply |-> newSupply, demand |-> newDemand, currentPrice |-> newPrice]

\* faulty variant: the demand raised without the cap of 3
ListingUpdatesNoCap(listing) ==
    LET newSupply == Max(0, listing.supply - 1)
        newDemand == listing.demand + 1
        newPrice == Max(1, (2 * listing.currentPrice * (10100 - newDemand) + 10000)
                              \div 20000)
    IN  [supply |-> newSupply, demand |-> newDemand, currentPrice |-> newPrice]

\* the updates POST /api/sell passes to updateMarketplaceListing; demand in
\* hundredths, Math.round(x) = floor(x + 1/2)
ListingUpdates(listing) ==
    LET newSupply == Max(0, listing.supply - 1)
        newDemand == Min(300, listing.demand + 1)
        newPrice == Max(1, (2 * listing.currentPrice * (10100 - newDemand) + 10000)
                              \div 20000)
    IN  [supply |-> newSupply, demand |-> newDemand, currentPrice |-> newPrice]

SellRequest(i, s, fragmentId) ==
    /\ Free(i)
    /\ received' = received + 1
    /\ LET userId == sessionUser[s]
           gameState == getGameState(userId)
       IN  IF userId = 0 THEN Respond(i, "sell", s, 401)
           ELSE IF fragmentId = Missing THEN Respond(i, "sell", s, 400)
           ELSE IF gameState.id = 0 THEN Respond(i, "sell", s, 404)
           ELSE Continue(i, [pc |-> "sell_find", kind |-> "sell",
                             userId |-> userId, gameState |-> gameState,
                             fragmentId |-> fragmentId])
    /\ UNCHANGED <<sessionUser, gameStates, fragments, nextFragId, listings, rngSeed>>

SellFind(i) ==
    /\ reqs[i].pc = "sell_find"
    /\ LET fragment == FindFragment(getFragments(reqs[i].gameState.id),
                                    reqs[i].fragmentId)
       IN  IF fragment.id = 0 THEN Respond(i, "sell", reqs[i].userId, 404)
           ELSE Continue(i, [pc |-> "sell_listings", kind |-> "sell",
                             userId |-> reqs[i].userId,
                             gameState |-> reqs[i].gameState,
                             fragment |-> fragment])
    /\ UNCHANGED <<sessionUser, gameStates, fragments, nextFragId, listings,
                   rngSeed, received>>

SellListings(i) ==
    /\ reqs[i].pc = "sell_listings"
    /\ LET fragment == reqs[i].fragment
           listingId == <<fragment.type, fragment.rarity>>
           listing == IF listingId \in DOMAIN listings
                      THEN listings[listingId]
                      ELSE NoListing
       IN  Continue(i, [pc |-> "sell_update", kind |-> "sell",
                        userId |-> reqs[i].userId,
                        gameState |-> reqs[i].gameState,
                        fragment |-> fragment,
                        listing |-> listing,
                        price |-> SalePrice(listing, fragment)])
    /\ UNCHANGED <<sessionUser, gameStates, fragments, nextFragId, listings,
                   rngSeed, received>>

SellUpdate(i) ==
    /\ reqs[i].pc = "sell_update"
    /\ gameStates' = updateGameState(reqs[i].userId,
           [flux |-> reqs[i].gameState.flux + reqs[i].price])
    /\ Continue(i, [reqs[i] EXCEPT !.pc = "sell_delete"])
    /\ UNCHANGED <<sessionUser, fragments, nextFragId, listings, rngSeed, received>>

SellDelete(i) ==
    /\ reqs[i].pc = "sell_delete"
    /\ fragments' = deleteFragment(reqs[i].fragment.id)
    /\ IF reqs[i].listing.id = <<>>
       THEN Respond(i, "sell", reqs[i].userId, 200)
       ELSE Continue(i, [reqs[i] EXCEPT !.pc = "sell_market"])
    /\ UNCHANGED <<sessionUser, gameStates, nextFragId, listings, rngSeed, received>>

SellMarket(i) ==
    /\ reqs[i].pc = "sell_market"
    /\ LET listing == reqs[i].listing
       IN  listings' = updateMarketplaceListing(listing.fragmentType, listing.rarity,
                                                ListingUpdates(listing))
    /\ Respond(i, "sell", reqs[i].userId, 200)
    /\ UNCHANGED <<sessionUser, gameStates, fragments, nextFragId, rngSeed, received>>

\* updateMarketplaceListing throws (the database call fails): the catch
\* around the listing update logs a warning and the sale is answered as usual
SellMarketFails(i) ==
    /\ reqs[i].pc = "sell_market"
    /\ Respond(i, "sell", reqs[i].userId, 200)
    /\ UNCHANGED <<sessionUser, gameStates, fragments, nextFragId, listings,
                   rngSeed, received>>

\* ---- POST /api/upgrade/:type ----

\* faulty variant: the rarityOdds case raises the level of spinSpeed
UpgradeUpdatesSwapped(gameState, upgradeType, cost) ==
    LET debit == [flux |-> gameState.flux - cost]
    IN  CASE upgradeType = "spinSpeed" ->
               debit @@ [spinSpeedLevel |-> gameState.spinSpeedLevel + 1]
          [] upgradeType = "rarityOdds" ->
               debit @@ [spinSpeedLevel |-> gameState.spinSpeedLevel + 1]
          [] upgradeType = "fluxCost" ->
               debit @@ [fluxCostLevel |-> gameState.fluxCostLevel + 1]
          [] upgradeType = "mutationSlots" ->
               debit @@ [mutationSlotsLevel |-> gameState.mutationSlotsLevel + 1]
          [] OTHER -> <<>>

\* the switch of POST /api/upgrade/:type; <<>> stands for its default branch
UpgradeUpdates(gameState, upgradeType, cost) ==
    LET debit == [flux |-> gameState.flux - cost]
    IN  CASE upgradeType = "spinSpeed" ->
               debit @@ [spinSpeedLevel |-> gameState.spinSpeedLevel + 1]
          [] upgradeType = "rarityOdds" ->
               debit @@ [rarityOddsLevel |-> gameState.rarityOddsLevel + 1]
          [] upgradeType = "fluxCost" ->
               debit @@ [fluxCostLevel |-> gameState.fluxCostLevel + 1]
          [] upgradeType = "mutationSlots" ->
               debit @@ [mutationSlotsLevel |-> gameState.mutationSlotsLevel + 1]
          [] OTHER -> <<>>

\* faulty variant: the upgrade is not checked against the flux balance
UpgradeRequestUnchecked(i, s, upgradeType) ==
    /\ Free(i)
    /\ received' = received + 1
    /\ LET userId == sessionUser[s]
           gameState == getGameState(userId)
           cost == calculateDeviceUpgradeCost(gameState, upgradeType)
           updates == UpgradeUpdates(gameState, upgradeType, cost)
       IN  IF userId = 0 THEN Respond(i, "upgrade", s, 401)
           ELSE IF gameState.id = 0 THEN Respond(i, "upgrade", s, 404)
           ELSE IF DOMAIN updates = {}
           THEN RespondWith(i, "upgrade", s, 400, "Invalid upgrade type")
           ELSE Continue(i, [pc |-> "upgrade_update", kind |-> "upgrade",
                             userId |-> userId, updates |-> updates])
    /\ UNCHANGED <<sessionUser, gameStates, fragments, nextFragId, listings, rngSeed>>

UpgradeRequest(i, s, upgradeType) ==
    /\ Free(i)
    /\ received' = received + 1
    /\ LET userId == sessionUser[s]
           gameState == getGameState(userId)
           cost == calculateDeviceUpgradeCost(gameState, upgradeType)
           updates == UpgradeUpdates(gameState, upgradeType, cost)
       IN  IF userId = 0 THEN Respond(i, "upgrade", s, 401)
           ELSE IF gameState.id = 0 THEN Respond(i, "upgrade", s, 404)
           ELSE IF gameState.flux < cost
           THEN RespondWith(i, "upgrade", s, 400, "Insufficient flux")
           ELSE IF DOMAIN updates = {}
           THEN RespondWith(i, "upgrade", s, 400, "Invalid upgrade type")
           ELSE Continue(i, [pc |-> "upgrade_update", kind |-> "upgrade",
                             userId |-> userId, updates |-> updates])
    /\ UNCHANGED <<sessionUser, gameStates, fragments, nextFragId, listings, rngSeed>>

UpgradeUpdate(i) ==
    /\ reqs[i].pc = "upgrade_update"
    /\ gameStates' = updateGameState(reqs[i].userId, reqs[i].updates)
    /\ Respond(i, "upgrade", reqs[i].userId, 200)
    /\ UNCHANGED <<sessionUser, fragments, nextFragId, listings, rngSeed, received>>

\* ---- POST /api/mutate ----

\* values of Math.random() in hundredths: one below every success rate, one
\* in the middle, one above every success rate
RandomDraws == {0, 50, 99}

\* the component lists a mutate request can carry: every list of at most two
\* known ids, and one id repeated up to MaxComponents times
ComponentLists ==
    {<<>>} \cup {<<a>> : a \in KnownIds}
           \cup {<<a, b>> : a \in KnownIds, b \in KnownIds}
           \cup {[k \in 1 .. n |-> a] : n \in 3 .. MaxComponents, a \in KnownIds}

MutateRequest(i, s, baseFragmentId, componentFragmentIds) ==
    /\ Free(i)
    /\ CanCreate
    /\ received' = received + 1
    /\ LET userId == sessionUser[s]
           gameState == getGameState(userId)
       IN  IF userId = 0 THEN RespondWith(i, "mutate", s, 401, "Unauthorized")
           ELSE IF gameState.id = 0
           THEN RespondWith(i, "mutate", s, 404, "Game state not found")
           ELSE IF Len(componentFragmentIds) = 0
           THEN RespondWith(i, "mutate", s, 400, "Invalid mutation request")
           ELSE Continue(i, [pc |-> "mutate_check", kind |-> "mutate",
                             userId |-> userId, gameState |-> gameState,
                             baseFragmentId |-> baseFragmentId,
                             componentFragmentIds |-> componentFragmentIds])
    /\ UNCHANGED <<sessionUser, gameStates, fragments, nextFragId, listings, rngSeed>>

\* componentFragmentIds.map(id => fragments.find(...)).filter(Boolean)
RECURSIVE FoundComponents(_, _)
FoundComponents(rows, ids) ==
    IF ids = <<>> THEN <<>>
    ELSE LET f == FindFragment(rows, Head(ids))
         IN  (IF f.id = 0 THEN <<>> ELSE <<f>>) \o FoundComponents(rows, Tail(ids))

\* the verdict of a request that passes every check
Accepted == [status |-> 0, message |-> ""]

Rejected(status, message) == [status |-> status, message |-> message]

\* faulty variant: the component count is not checked against the slots
MutateVerdictNoSlotLimit(gameState, baseFragment, componentFragments, componentFragmentIds) ==
    IF baseFragment.id = 0 THEN Rejected(404, "Base fragment not found")
    ELSE IF baseFragment.type # "base_item"
         THEN Rejected(400, "Base fragment must be a base item")
    ELSE IF Len(componentFragments) # Len(componentFragmentIds)
         THEN Rejected(404, "One or more component fragments not found")
    ELSE IF \E k \in DOMAIN componentFragments :
                componentFragments[k].type \notin {"component", "modifier"}
         THEN Rejected(400, "Components must be of type 'component' or 'modifier'")
    ELSE IF gameState.flux < calculateMutationCost(baseFragment, componentFragments)
         THEN Rejected(400, "Insufficient flux")
    ELSE Accepted

\* the validation of POST /api/mutate after getFragments: the rejection, or
\* Accepted
MutateVerdict(gameState, baseFragment, componentFragments, componentFragmentIds) ==
    IF baseFragment.id = 0 THEN Rejected(404, "Base fragment not found")
    ELSE IF baseFragment.type # "base_item"
         THEN Rejected(400, "Base fragment must be a base item")
    ELSE IF Len(componentFragments) # Len(componentFragmentIds)
         THEN Rejected(404, "One or more component fragments not found")
    ELSE IF \E k \in DOMAIN componentFragments :
                componentFragments[k].type \notin {"component", "modifier"}
         THEN Rejected(400, "Components must be of type 'component' or 'modifier'")
    ELSE IF Len(componentFragments) > 2 + gameState.mutationSlotsLevel
         THEN Rejected(400, "Too many components")
    ELSE IF gameState.flux < calculateMutationCost(baseFragment, componentFragments)
         THEN Rejected(400, "Insufficient flux")
    ELSE Accepted

MutateCheck(i) ==
    /\ reqs[i].pc = "mutate_check"
    /\ LET r == reqs[i]
           rows == getFragments(r.gameState.id)
           baseFragment == FindFragment(rows, r.baseFragmentId)
           componentFragments == FoundComponents(rows, r.componentFragmentIds)
           verdict == MutateVerdict(r.gameState, baseFragment, componentFragments,
                                    r.componentFragmentIds)
       IN  IF verdict.status # 0
           THEN RespondWith(i, "mutate", r.userId, verdict.status, verdict.message)
           ELSE \E mutationRng \in RandomDraws :
                  Continue(i, [pc |-> "mutate_update", kind |-> "mutate",
                      userId |-> r.userId, gameState |-> r.gameState,
                      baseFragment |-> baseFragment,
                      componentFragments |-> componentFragments,
                      fluxCost |-> calculateMutationCost(baseFragment, componentFragments),
                      success |-> mutationRng <
                          calculateMutationSuccessRate(baseFragment, componentFragments,
                                                       r.gameState),
                      consumedFragmentIds |-> <<r.baseFragmentId>> \o r.componentFragmentIds,
                      deleted |-> 0])
    /\ UNCHANGED <<sessionUser, gameStates, fragments, nextFragId, listings,
                   rngSeed, received>>

\* faulty variant: flux is debited only when the success draw succeeded
MutateUpdateOnSuccess(i) ==
    /\ reqs[i].pc = "mutate_update"
    /\ gameStates' = IF reqs[i].success
                     THEN updateGameState(reqs[i].userId,
                              [flux |-> reqs[i].gameState.flux - reqs[i].fluxCost])
                     ELSE gameStates
    /\ Continue(i, [reqs[i] EXCEPT !.pc = "mutate_delete"])
    /\ UNCHANGED <<sessionUser, fragments, nextFragId, listings, rngSeed, received>>

MutateUpdate(i) ==
    /\ reqs[i].pc = "mutate_update"
    /\ gameStates' = updateGameState(reqs[i].userId,
           [flux |-> reqs[i].gameState.flux - reqs[i].fluxCost])
    /\ Continue(i, [reqs[i] EXCEPT !.pc = "mutate_delete"])
    /\ UNCHANGED <<sessionUser, fragments, nextFragId, listings, rngSeed, received>>

\* for (const fragmentId of consumedFragmentIds) await storage.deleteFragment(fragmentId)
MutateDelete(i) ==
    /\ reqs[i].pc = "mutate_delete"
    /\ LET r == reqs[i]
           k == r.deleted + 1
       IN  /\ fragments' = deleteFragment(r.consumedFragmentIds[k])
           /\ IF k < Len(r.consumedFragmentIds)
              THEN Continue(i, [r EXCEPT !.deleted = k])
              ELSE IF r.success
              THEN Continue(i, [r EXCEPT !.deleted = k, !.pc = "mutate_create"])
              ELSE Respond(i, "mutate", r.userId, 200)
    /\ UNCHANGED <<sessionUser, gameStates, nextFragId, listings, rngSeed, received>>

MutateCreate(i) ==
    /\ reqs[i].pc = "mutate_create"
    /\ \E now \in ClockValues :
          fragments' = createFragment(reqs[i].gameState.id,
              performMutation(reqs[i].baseFragment, reqs[i].componentFragments, now))
    /\ nextFragId' = nextFragId + 1
    /\ Respond(i, "mutate", reqs[i].userId, 200)
    /\ UNCHANGED <<sessionUser, gameStates, listings, rngSeed, received>>

\* ------------------------------------------------------------------------
\* The server: start-up and every step of every handler
\* ------------------------------------------------------------------------

Init ==
    /\ sessionUser = [s \in Sessions |-> 0]
    /\ gameStates = <<>>
    /\ fragments = <<>>
    /\ nextFragId = 0
    /\ listings = initializeMarketplace
    /\ rngSeed \in StartSeeds
    /\ reqs = [i \in Slots |-> Idle]
    /\ received = 0
    /\ resp = [n |-> 0, kind |-> "none", session |-> 0, status |-> 0, message |-> ""]
    /\ genA = Unused /\ genB = Unused /\ choice = Unused
    /\ cycle = Unused
    /\ pool = Unused /\ last = Unused

Next ==
    \E i \in Slots :
        \/ \E s \in Sessions : GameStateRequest(i, s)
        \/ GameStateGet(i)
        \/ GameStateCreate(i)
        \/ \E s \in Sessions : SpinRequest(i, s)
        \/ SpinCreate(i)
        \/ SpinUpdate(i)
        \/ \E s \in Sessions : FragmentsRequest(i, s)
        \/ \E s \in Sessions : MarketplaceRequest(i, s)
        \/ \E s \in Sessions, id \in KnownIds : ShatterRequest(i, s, id)
        \/ ShatterFind(i)
        \/ ShatterUpdate(i)
        \/ ShatterDelete(i)
        \/ \E s \in Sessions, id \in KnownIds \cup {Missing} : SellRequest(i, s, id)
        \/ SellFind(i)
        \/ SellListings(i)
        \/ SellUpdate(i)
        \/ SellDelete(i)
        \/ SellMarket(i)
        \/ SellMarketFails(i)
        \/ \E s \in Sessions, type \in UpgradeTypes \cup {"unknown"} :
              UpgradeRequest(i, s, type)
        \/ UpgradeUpdate(i)
        \/ \E s \in Sessions, id \in KnownIds, ids \in ComponentLists :
              MutateRequest(i, s, id, ids)
        \/ MutateCheck(i)
        \/ MutateUpdate(i)
        \/ MutateDelete(i)
        \/ MutateCreate(i)

Spec == Init /\ [][Next]_vars

\* ------------------------------------------------------------------------
\* SpecRng: VoidRNG instances on their own.  Two instances are constructed
\* with the same argument at two times and next() is called on each; one
\* call of weightedChoice is made on a third generator.
\* ------------------------------------------------------------------------

\* the arguments a generator is constructed with: none, or an integer
SeedArgs == {<<>>} \cup {<<n>> : n \in (0 - MaxSeedArg) .. MaxSeedArg}

\* generator states a weightedChoice call starts from; next(22643) = 0
ChoiceSeeds == {22643, 1174, 100000}

\* item lists: item k of a list has weight ws[k]
WeightLists ==
    UNION {[1 .. n -> 0 .. MaxWeight] : n \in 1 .. MaxItems}

ItemsOf(ws) == [k \in DOMAIN ws |-> [item |-> k, weight |-> ws[k]]]

NewInstance(seedArg, now) ==
    [seedArg |-> seedArg, now |-> now, seed |-> VoidRNG(seedArg, now),
     values |-> <<>>]

InitRng ==
    /\ \E seedArg \in SeedArgs, nowA \in ClockValues, nowB \in ClockValues :
          /\ genA = NewInstance(seedArg, nowA)
          /\ genB = NewInstance(seedArg, nowB)
    /\ \E seed \in ChoiceSeeds :
          choice = [seed |-> seed, items |-> <<>>, item |-> 0, after |-> seed]
    /\ sessionUser = Unused /\ gameStates = Unused /\ fragments = Unused
    /\ nextFragId = Unused /\ listings = Unused /\ rngSeed = Unused
    /\ reqs = Unused /\ received = Unused /\ resp = Unused
    /\ cycle = Unused /\ pool = Unused /\ last = Unused

\* one next() on an instance; the value returned is the new seed over Modulus
Draw(g) == [g EXCEPT !.seed = next(g.seed), !.values = Append(@, next(g.seed))]

NextA ==
    /\ Len(genA.values) < MaxCalls
    /\ genA' = Draw(genA)
    /\ UNCHANGED <<serverVars, genB, choice, cycle, mutationVars>>

NextB ==
    /\ Len(genB.values) < MaxCalls
    /\ genB' = Draw(genB)
    /\ UNCHANGED <<serverVars, genA, choice, cycle, mutationVars>>

Choose(ws) ==
    /\ choice.items = <<>>
    /\ LET c == weightedChoice(choice.seed, ItemsOf(ws))
       IN  choice' = [choice EXCEPT !.items = ItemsOf(ws), !.item = c.item,
                                    !.after = c.seed]
    /\ UNCHANGED <<serverVars, genA, genB, cycle, mutationVars>>

NextRng ==
    \/ NextA
    \/ NextB
    \/ \E ws \in WeightLists : Choose(ws)

SpecRng == InitRng /\ [][NextRng]_vars

\* ------------------------------------------------------------------------
\* SpecCycle: rollRarity(0) called again and again on one generator, each
\* result counted, for one full cycle of the generator (Modulus draws)
\* ------------------------------------------------------------------------

InitCycle ==
    /\ cycle = [seed |-> StartSeedList[1], draws |-> 0,
                tally |-> [r \in RaritySet |-> 0]]
    /\ sessionUser = Unused /\ gameStates = Unused /\ fragments = Unused
    /\ nextFragId = Unused /\ listings = Unused /\ rngSeed = Unused
    /\ reqs = Unused /\ received = Unused /\ resp = Unused
    /\ genA = Unused /\ genB = Unused /\ choice = Unused
    /\ pool = Unused /\ last = Unused

\* rollRarity(0) called until `stop` draws are made, each result counted
RECURSIVE RollUntil(_, _)
RollUntil(c, stop) ==
    IF c.draws >= stop THEN c
    ELSE LET r == rollRarity(c.seed, 0)
         IN  RollUntil([seed |-> r.seed, draws |-> c.draws + 1,
                        tally |-> [c.tally EXCEPT ![r.rarity] = @ + 1]],
                       stop)

\* the next DrawsPerStep draws of the cycle
Roll ==
    /\ cycle.draws < Modulus
    /\ cycle' = RollUntil(cycle, Min(cycle.draws + DrawsPerStep, Modulus))
    /\ UNCHANGED <<serverVars, rngVars, mutationVars>>

NextCycle == Roll

SpecCycle == InitCycle /\ [][NextCycle]_vars

\* ------------------------------------------------------------------------
\* SpecPeriod: rollRarity(0) called again and again on one generator for
\* one full cycle (Modulus draws), from the least, the greatest and another
\* state; the draws that bring the generator back to its first state and
\* the draws that return void_touched are recorded.
\* ------------------------------------------------------------------------

InitPeriod ==
    /\ \E start \in {0, StartSeedList[1], Modulus - 1} :
          cycle = [start |-> start, seed |-> start, draws |-> 0,
                   returns |-> 0, voidTouched |-> {}]
    /\ sessionUser = Unused /\ gameStates = Unused /\ fragments = Unused
    /\ nextFragId = Unused /\ listings = Unused /\ rngSeed = Unused
    /\ reqs = Unused /\ received = Unused /\ resp = Unused
    /\ genA = Unused /\ genB = Unused /\ choice = Unused
    /\ pool = Unused /\ last = Unused

\* rollRarity(0) called until `stop` draws are made; `returns` counts the
\* draws after which the generator is in its first state again, and
\* `voidTouched` holds the generator states at which void_touched was
\* returned
RECURSIVE DrawUntil(_, _)
DrawUntil(c, stop) ==
    IF c.draws >= stop THEN c
    ELSE LET r == rollRarity(c.seed, 0)
         IN  DrawUntil([start |-> c.start,
                        seed |-> r.seed,
                        draws |-> c.draws + 1,
                        returns |-> c.returns + (IF r.seed = c.start THEN 1 ELSE 0),
                        voidTouched |-> IF r.rarity = "void_touched"
                                        THEN c.voidTouched \cup {r.seed}
                                        ELSE c.voidTouched],
                       stop)

\* the next DrawsPerStep draws of the cycle
DrawBlock ==
    /\ cycle.draws < Modulus
    /\ cycle' = DrawUntil(cycle, Min(cycle.draws + DrawsPerStep, Modulus))
    /\ UNCHANGED <<serverVars, rngVars, mutationVars>>

SpecPeriod == InitPeriod /\ [][DrawBlock]_vars

\* ------------------------------------------------------------------------
\* SpecMutation: performMutation on its own.  Fragments come from
\* generateFragment or from earlier mutations.
\* ------------------------------------------------------------------------

\* generator states a fragment is generated from: seed 1 yields a common
\* base item, 5 an uncommon component, 41 a rare modifier, 23 an uncommon
\* base item
GenSeedList == <<1, 5, 41, 23>>

GenSeeds == {GenSeedList[k] : k \in 1 .. Min(NumGenSeeds, Len(GenSeedList))}

\* component lists of POST /api/mutate over the pool: one or two entries
PoolLists ==
    {<<a>> : a \in DOMAIN pool} \cup {<<a, b>> : a \in DOMAIN pool, b \in DOMAIN pool}

InitMutation ==
    /\ pool = <<>>
    /\ last = [op |-> "none"]
    /\ sessionUser = Unused /\ gameStates = Unused /\ fragments = Unused
    /\ nextFragId = Unused /\ listings = Unused /\ rngSeed = Unused
    /\ reqs = Unused /\ received = Unused /\ resp = Unused
    /\ genA = Unused /\ genB = Unused /\ choice = Unused
    /\ cycle = Unused

Generate(seed) ==
    /\ Len(pool) < MaxPool
    /\ pool' = Append(pool, FragmentRow(Len(pool) + 1, 1,
                                        generateFragment(seed, 1).draft))
    /\ last' = [op |-> "generate"]
    /\ UNCHANGED <<serverVars, rngVars, cycle>>

\* performMutation on a base and components that POST /api/mutate accepts
Mutate(b, cs, now) ==
    /\ pool[b].type = "base_item"
    /\ \A k \in DOMAIN cs : pool[cs[k]].type \in {"component", "modifier"}
    /\ LET components == [k \in DOMAIN cs |-> pool[cs[k]]]
           result == performMutation(pool[b], components, now)
       IN  /\ last' = [op |-> "mutate", base |-> pool[b],
                       components |-> components, result |-> result]
           /\ pool' = IF Len(pool) < MaxPool
                      THEN Append(pool, FragmentRow(Len(pool) + 1, 1, result))
                      ELSE pool
    /\ UNCHANGED <<serverVars, rngVars, cycle>>

NextMutation ==
    \/ \E seed \in GenSeeds : Generate(seed)
    \/ \E b \in DOMAIN pool, cs \in PoolLists, now \in ClockValues : Mutate(b, cs, now)

SpecMutation == InitMutation /\ [][NextMutation]_vars

\* ------------------------------------------------------------------------
\* SpecEvolve: performMutation on base items of every rarity.  The pool
\* holds a base item and two fragments to use as components, all produced
\* by generateFragment; results of mutations are added while there is room.
\* ------------------------------------------------------------------------

\* generator state and rarityOddsLevel a base item of each rarity is
\* generated from: common, uncommon, rare, epic, legendary, mythic, and
\* void_touched (state 5288 rolls legendary at level 1 and, with the bonus
\* of level 2, void_touched)
EvolveBases ==
    { <<1, 1>>, <<23, 1>>, <<96, 1>>, <<47, 1>>, <<5288, 1>>, <<71727, 1>>,
      <<5288, 2>> }

\* generator states of the first component: an uncommon and a common one
EvolveComponents == {5, 3}

InitEvolve ==
    /\ \E b \in EvolveBases, c \in EvolveComponents :
          pool = << FragmentRow(1, 1, generateFragment(b[1], b[2]).draft),
                    FragmentRow(2, 1, generateFragment(c, 1).draft),
                    FragmentRow(3, 1, generateFragment(41, 1).draft) >>
    /\ last = [op |-> "none"]
    /\ sessionUser = Unused /\ gameStates = Unused /\ fragments = Unused
    /\ nextFragId = Unused /\ listings = Unused /\ rngSeed = Unused
    /\ reqs = Unused /\ received = Unused /\ resp = Unused
    /\ genA = Unused /\ genB = Unused /\ choice = Unused
    /\ cycle = Unused

NextEvolve ==
    \E b \in DOMAIN pool, cs \in PoolLists, now \in ClockValues : Mutate(b, cs, now)

SpecEvolve == InitEvolve /\ [][NextEvolve]_vars

\* ------------------------------------------------------------------------
\* SpecStats: the device statistics the server and the client report for
\* one game state, next to what a spin of that game state charges and the
\* rarity generateFragment rolls.
\* ------------------------------------------------------------------------

\* the levels of the game state and the state of the generator before the
\* fragment is generated: after the type draw, 23 rolls 0.9294 and 1 rolls
\* 0.7189
InitStats ==
    /\ \E rarityOddsLevel \in 1 .. MaxUpgradeLevel,
          fluxCostLevel \in 1 .. MaxUpgradeLevel, seed \in {23, 1} :
          last = [op |-> "inputs",
                  gameState |-> [spinSpeedLevel |-> 1,
                                 rarityOddsLevel |-> rarityOddsLevel,
                                 fluxCostLevel |-> fluxCostLevel,
                                 mutationSlotsLevel |-> 1],
                  seed |-> seed]
    /\ sessionUser = Unused /\ gameStates = Unused /\ fragments = Unused
    /\ nextFragId = Unused /\ listings = Unused /\ rngSeed = Unused
    /\ reqs = Unused /\ received = Unused /\ resp = Unused
    /\ genA = Unused /\ genB = Unused /\ choice = Unused
    /\ cycle = Unused /\ pool = Unused

\* both getDeviceStats on the game state, the cost of a spin, the rarity of
\* the fragment a spin generates, and the rarity rollRarity returns at the
\* same generator state for the bonus each side reports
DeviceStats ==
    /\ last.op = "inputs"
    /\ last' = [op |-> "stats",
                gameState |-> last.gameState,
                seed |-> last.seed,
                server |-> getDeviceStats(last.gameState),
                client |-> clientGetDeviceStats(last.gameState),
                spinCost |-> spinCost(last.gameState),
                generated |-> generateFragment(last.seed,
                                  last.gameState.rarityOddsLevel).draft.rarity,
                serverRolled |-> rollRarity(weightedChoice(last.seed, typeWeights).seed,
                                  getDeviceStats(last.gameState).rarityBonus).rarity,
                clientRolled |-> rollRarity(weightedChoice(last.seed, typeWeights).seed,
                                  clientGetDeviceStats(last.gameState).rarityBonus).rarity]
    /\ UNCHANGED <<serverVars, rngVars, cycle, pool>>

SpecStats == InitStats /\ [][DeviceStats]_vars

\* ------------------------------------------------------------------------
\* SpecQuote: calculateMutationSuccessRate and calculateMutationCost on
\* their own.  They read only the rarities, the number of components and
\* mutationSlotsLevel.
\* ------------------------------------------------------------------------

\* a rarity that is in none of the tables
QuoteRarities == RaritySet \cup {"unknown"}

RarityLists == UNION {[1 .. n -> QuoteRarities] : n \in 1 .. MaxQuoteComponents}

\* the inputs of one quote
InitQuote ==
    /\ \E baseRarity \in QuoteRarities, componentRarities \in RarityLists,
          level \in 1 .. MaxLevel :
          last = [op |-> "inputs", baseRarity |-> baseRarity,
                  componentRarities |-> componentRarities, level |-> level]
    /\ sessionUser = Unused /\ gameStates = Unused /\ fragments = Unused
    /\ nextFragId = Unused /\ listings = Unused /\ rngSeed = Unused
    /\ reqs = Unused /\ received = Unused /\ resp = Unused
    /\ genA = Unused /\ genB = Unused /\ choice = Unused
    /\ cycle = Unused /\ pool = Unused

Quote ==
    /\ last.op = "inputs"
    /\ LET baseFragment == [rarity |-> last.baseRarity]
           components == [k \in DOMAIN last.componentRarities |->
                             [rarity |-> last.componentRarities[k]]]
           gameState == [mutationSlotsLevel |-> last.level]
       IN  last' = [last EXCEPT !.op = "quote"] @@
                   [successRate |-> calculateMutationSuccessRate(baseFragment,
                                        components, gameState),
                    fluxCost |-> calculateMutationCost(baseFragment, components)]
    /\ UNCHANGED <<serverVars, rngVars, cycle, pool>>

NextQuote == Quote

SpecQuote == InitQuote /\ [][NextQuote]_vars

\* ------------------------------------------------------------------------
\* SpecGen: generateFragment on its own, from every state of the generator
\* and every rarityOddsLevel up to MaxLevel.
\* ------------------------------------------------------------------------

\* the states of the generator: next() leaves the seed in 0 .. Modulus - 1
GenStates == 0 .. Modulus - 1

\* the inputs of one call: the generator state and the rarityOddsLevel of
\* the game state
InitGen ==
    /\ \E seed \in GenStates, level \in 1 .. MaxLevel :
          last = [op |-> "inputs", seed |-> seed, level |-> level]
    /\ sessionUser = Unused /\ gameStates = Unused /\ fragments = Unused
    /\ nextFragId = Unused /\ listings = Unused /\ rngSeed = Unused
    /\ reqs = Unused /\ received = Unused /\ resp = Unused
    /\ genA = Unused /\ genB = Unused /\ choice = Unused
    /\ cycle = Unused /\ pool = Unused

GenerateFragment ==
    /\ last.op = "inputs"
    /\ LET g == generateFragment(last.seed, last.level)
       IN  last' = [op |-> "fragment", seed |-> last.seed, level |-> last.level,
                    draft |-> g.draft, after |-> g.seed]
    /\ UNCHANGED <<serverVars, rngVars, cycle, pool>>

NextGen == GenerateFragment

SpecGen == InitGen /\ [][NextGen]_vars

\* ------------------------------------------------------------------------
\* SpecMods: generateImplicitMods on its own, from every state of the
\* generator and for every rarity.
\* ------------------------------------------------------------------------

InitMods ==
    /\ \E seed \in GenStates, rarity \in RaritySet :
          last = [op |-> "inputs", seed |-> seed, rarity |-> rarity]
    /\ sessionUser = Unused /\ gameStates = Unused /\ fragments = Unused
    /\ nextFragId = Unused /\ listings = Unused /\ rngSeed = Unused
    /\ reqs = Unused /\ received = Unused /\ resp = Unused
    /\ genA = Unused /\ genB = Unused /\ choice = Unused
    /\ cycle = Unused /\ pool = Unused

GenerateMods ==
    /\ last.op = "inputs"
    /\ LET g == generateImplicitMods(last.seed, last.rarity)
       IN  last' = [op |-> "mods", seed |-> last.seed, rarity |-> last.rarity,
                    mods |-> g.mods, after |-> g.seed]
    /\ UNCHANGED <<serverVars, rngVars, cycle, pool>>

NextMods == GenerateMods

SpecMods == InitMods /\ [][NextMods]_vars

\* ------------------------------------------------------------------------
\* SpecPlay: the handlers of one player, one request at a time, on a game
\* in progress: the player has spent or earned flux, has bought device
\* upgrades and owns a fragment; a second player owns another fragment;
\* every listing has been sold to a number of times.
\* ------------------------------------------------------------------------

\* flux balances around the thresholds: the spin costs 5 and 25, the price
\* 500 of the first spinSpeed upgrade, and a balance that pays any upgrade
PlayFlux == {4, 5, 24, 25, 499, 500, 5000}

\* device levels: a new device, and two devices with upgrades bought
PlayLevels ==
    { [spinSpeedLevel |-> 1, rarityOddsLevel |-> 1, fluxCostLevel |-> 1,
       mutationSlotsLevel |-> 1],
      [spinSpeedLevel |-> 3, rarityOddsLevel |-> 1, fluxCostLevel |-> 6,
       mutationSlotsLevel |-> 2],
      [spinSpeedLevel |-> 1, rarityOddsLevel |-> 2, fluxCostLevel |-> 5,
       mutationSlotsLevel |-> 1] }

\* generator states the player's fragment was generated from: 3 yields a
\* common component, 1 a common base item (no listing), 1083 a legendary
\* component, 41 a rare modifier
PlaySeeds == {3, 1, 1083, 41}

\* sales each listing has seen: none, and as many as take the supply of 100
\* to 1 and to 0
PriorSales == {0, 99, 100}

\* a listing after n sales, each applying the update of POST /api/sell; a
\* sale that leaves the listing as it is ends the iteration
RECURSIVE SoldTimes(_, _)
SoldTimes(listing, n) ==
    LET updates == ListingUpdates(listing)
        sold == [listing EXCEPT !.supply = updates.supply,
                                !.demand = updates.demand,
                                !.currentPrice = updates.currentPrice]
    IN  IF n = 0 \/ sold = listing THEN listing ELSE SoldTimes(sold, n - 1)

\* the game_states row of a game in progress
PlayRow(id, userId, flux, levels) ==
    [id |-> id, userId |-> userId, flux |-> flux, totalSpins |-> 0] @@ levels

InitPlay ==
    /\ \E n \in PriorSales :
          listings = [id \in ListingIds |-> SoldTimes(initializeMarketplace[id], n)]
    /\ sessionUser = [s \in Sessions |-> IF s <= 2 THEN s ELSE 0]
    /\ \E flux \in PlayFlux, levels \in PlayLevels :
          gameStates = << PlayRow(1, 1, flux, levels),
                          PlayRow(2, 2, 1000, CHOOSE l \in PlayLevels :
                                                  l.fluxCostLevel = 1) >>
    /\ \E seed \in PlaySeeds :
          fragments = (1 :> FragmentRow(1, 1, generateFragment(seed, 1).draft))
                      @@ (2 :> FragmentRow(2, 2, generateFragment(3, 1).draft))
    /\ nextFragId = 2
    /\ rngSeed = StartSeedList[1]
    /\ reqs = [i \in Slots |-> Idle]
    /\ received = 0
    /\ resp = [n |-> 0, kind |-> "none", session |-> 0, status |-> 0, message |-> ""]
    /\ genA = Unused /\ genB = Unused /\ choice = Unused
    /\ cycle = Unused
    /\ pool = Unused /\ last = Unused

\* the player's next request is received once the one before is answered
NextPlay ==
    \/ received < MaxPlayRequests /\ SpinRequest(1, 1)
    \/ received < MaxPlayRequests /\ \E id \in KnownIds : ShatterRequest(1, 1, id)
    \/ received < MaxPlayRequests
          /\ \E id \in KnownIds \cup {Missing} : SellRequest(1, 1, id)
    \/ received < MaxPlayRequests
          /\ \E type \in UpgradeTypes \cup {"unknown"} : UpgradeRequest(1, 1, type)
    \/ SpinCreate(1)
    \/ SpinUpdate(1)
    \/ ShatterFind(1)
    \/ ShatterUpdate(1)
    \/ ShatterDelete(1)
    \/ SellFind(1)
    \/ SellListings(1)
    \/ SellUpdate(1)
    \/ SellDelete(1)
    \/ SellMarket(1)
    \/ SellMarketFails(1)
    \/ UpgradeUpdate(1)

SpecPlay == InitPlay /\ [][NextPlay]_vars

\* ------------------------------------------------------------------------
\* SpecTwoPlayers: the fragment-consuming handlers (shatter, sell, mutate)
\* on a store that holds the game states of two players and two fragments,
\* either both of the first player or one of each; requests of both
\* sessions, one at a time, naming any known fragment id.
\* ------------------------------------------------------------------------

\* The first player's flux is enough for any mutation (1000) or too little
\* for one (5); no upgrade was bought; the fragments are generated from the
\* generator states 1 (a common base item), 3 (a common component), 5 (an
\* uncommon component) and 41 (a rare modifier).
InitTwoPlayers ==
    /\ listings = initializeMarketplace
    /\ sessionUser = [s \in Sessions |-> IF s <= 2 THEN s ELSE 0]
    /\ \E flux \in {1000, 5} :
          LET levels == [spinSpeedLevel |-> 1, rarityOddsLevel |-> 1,
                         fluxCostLevel |-> 1, mutationSlotsLevel |-> 1]
          IN  gameStates = << PlayRow(1, 1, flux, levels),
                              PlayRow(2, 2, 1000, levels) >>
    /\ \E a \in {1, 3}, b \in {5, 41, 1}, owner \in {1, 2} :
          fragments = (1 :> FragmentRow(1, 1, generateFragment(a, 1).draft))
                      @@ (2 :> FragmentRow(2, owner, generateFragment(b, 1).draft))
    /\ nextFragId = 2
    /\ rngSeed = StartSeedList[1]
    /\ reqs = [i \in Slots |-> Idle]
    /\ received = 0
    /\ resp = [n |-> 0, kind |-> "none", session |-> 0, status |-> 0, message |-> ""]
    /\ genA = Unused /\ genB = Unused /\ choice = Unused
    /\ cycle = Unused
    /\ pool = Unused /\ last = Unused

\* the next request of either session is received once the one before is
\* answered
NextTwoPlayers ==
    \/ received < MaxPlayRequests
          /\ \E s \in {1, 2}, id \in KnownIds : ShatterRequest(1, s, id)
    \/ received < MaxPlayRequests
          /\ \E s \in {1, 2}, id \in KnownIds : SellRequest(1, s, id)
    \/ received < MaxPlayRequests
          /\ \E s \in {1, 2}, baseFragmentId \in KnownIds,
                componentFragmentIds \in ComponentLists :
                MutateRequest(1, s, baseFragmentId, componentFragmentIds)
    \/ ShatterFind(1)
    \/ ShatterUpdate(1)
    \/ ShatterDelete(1)
    \/ SellFind(1)
    \/ SellListings(1)
    \/ SellUpdate(1)
    \/ SellDelete(1)
    \/ SellMarket(1)
    \/ SellMarketFails(1)
    \/ MutateCheck(1)
    \/ MutateUpdate(1)
    \/ MutateDelete(1)
    \/ MutateCreate(1)

SpecTwoPlayers == InitTwoPlayers /\ [][NextTwoPlayers]_vars

\* ------------------------------------------------------------------------
\* SpecMarket: the listing update of POST /api/sell, sale after sale, from
\* the seeded marketplace.  A sale changes the one listing of the sold
\* fragment's type and rarity, so a run sells to one listing.
\* ------------------------------------------------------------------------

\* sales of a run; a listing is settled long before (demand reaches its cap
\* after at most 210 sales)
MaxSales == 300

InitMarket ==
    /\ listings = initializeMarketplace
    /\ \E id \in ListingIds : last = [op |-> "listing", id |-> id, sales |-> 0]
    /\ sessionUser = Unused /\ gameStates = Unused /\ fragments = Unused
    /\ nextFragId = Unused /\ rngSeed = Unused
    /\ reqs = Unused /\ received = Unused /\ resp = Unused
    /\ genA = Unused /\ genB = Unused /\ choice = Unused
    /\ cycle = Unused /\ pool = Unused

\* one more sale of a fragment of the listing's type and rarity
Sale ==
    /\ last.sales < MaxSales
    /\ LET listing == listings[last.id]
       IN  listings' = updateMarketplaceListing(listing.fragmentType, listing.rarity,
                                                ListingUpdates(listing))
    /\ last' = [op |-> "sale", id |-> last.id, sales |-> last.sales + 1]
    /\ UNCHANGED <<sessionUser, gameStates, fragments, nextFragId, rngSeed,
                   reqs, received, resp, genA, genB, choice, cycle, pool>>

SpecMarket == InitMarket /\ [][Sale]_vars

\* ------------------------------------------------------------------------
\* SpecCost: calculateDeviceUpgradeCost on its own.  It reads the four
\* levels of the game state and the track.
\* ------------------------------------------------------------------------

\* a track that is none of the four
UpgradeTypeArgs == UpgradeTypes \cup {"unknown"}

\* the game state whose level of the given track is `level` and whose other
\* levels are `others`
GameStateAt(upgradeType, level, others) ==
    [spinSpeedLevel |-> IF upgradeType = "spinSpeed" THEN level ELSE others,
     rarityOddsLevel |-> IF upgradeType = "rarityOdds" THEN level ELSE others,
     fluxCostLevel |-> IF upgradeType = "fluxCost" THEN level ELSE others,
     mutationSlotsLevel |-> IF upgradeType = "mutationSlots" THEN level ELSE others]

\* the inputs of one call
InitCost ==
    /\ \E upgradeType \in UpgradeTypeArgs, level \in 1 .. MaxUpgradeLevel,
          others \in 1 .. MaxLevel :
          last = [op |-> "inputs", upgradeType |-> upgradeType,
                  level |-> level, others |-> others]
    /\ sessionUser = Unused /\ gameStates = Unused /\ fragments = Unused
    /\ nextFragId = Unused /\ listings = Unused /\ rngSeed = Unused
    /\ reqs = Unused /\ received = Unused /\ resp = Unused
    /\ genA = Unused /\ genB = Unused /\ choice = Unused
    /\ cycle = Unused /\ pool = Unused

\* the cost at the level of the inputs and at the level above it
Price ==
    /\ last.op = "inputs"
    /\ last' = [last EXCEPT !.op = "price"] @@
               [cost |-> calculateDeviceUpgradeCost(
                             GameStateAt(last.upgradeType, last.level, last.others),
                             last.upgradeType),
                costAbove |-> calculateDeviceUpgradeCost(
                             GameStateAt(last.upgradeType, last.level + 1, last.others),
                             last.upgradeType)]
    /\ UNCHANGED <<serverVars, rngVars, cycle, pool>>

NextCost == Price

SpecCost == InitCost /\ [][NextCost]_vars

\* ------------------------------------------------------------------------
\* Properties of the server (Spec)
\* ------------------------------------------------------------------------

\* C1: in every reachable state, under every interleaving of the handlers'
\* steps, the stored flux of every game state is at least 0.
FluxNeverNegative ==
    \A k \in DOMAIN gameStates : gameStates[k].flux >= 0

\* C1, the case: flux has been spent, the next spinSpeed upgrade is no
\* longer affordable, and an upgrade request has just been answered 400
\* "Insufficient flux".
FluxGuardRejected ==
    /\ resp.kind = "upgrade"
    /\ resp.status = 400
    /\ resp.message = "Insufficient flux"
    /\ \E k \in DOMAIN gameStates :
          /\ gameStates[k].userId = resp.session
          /\ gameStates[k].flux < 1000
          /\ gameStates[k].flux < calculateDeviceUpgradeCost(gameStates[k], "spinSpeed")

\* the preconditions of POST /api/mutate, on the request record of an
\* accepted request
MutatePreconditions(r) ==
    /\ r.baseFragment.type = "base_item"
    /\ Len(r.componentFragments) >= 1
    /\ \A k \in DOMAIN r.componentFragments :
          r.componentFragments[k].type \in {"component", "modifier"}
    /\ Len(r.componentFragments) <= 2 + r.gameState.mutationSlotsLevel
    /\ r.gameState.flux >= calculateMutationCost(r.baseFragment, r.componentFragments)

\* a step in which a mutate request is rejected: at once (not signed in, no
\* game state, empty component list) or after the fragments were read
MutateRejected ==
    \/ /\ received' # received
       /\ resp'.n # resp.n
       /\ resp'.kind = "mutate"
    \/ \E i \in Slots : reqs[i].pc = "mutate_check" /\ reqs'[i].pc = "idle"

\* C2: a mutate request that violates a precondition is rejected, and the
\* step that rejects it leaves every game state (so the flux) and the stored
\* fragments as they were; a request is accepted only with every
\* precondition met.
RejectedMutateChangesNothing ==
    [][/\ MutateRejected => UNCHANGED <<gameStates, fragments, nextFragId>>
       /\ \A i \in Slots :
             (reqs[i].pc = "mutate_check" /\ reqs'[i].pc = "mutate_update")
                 => MutatePreconditions(reqs'[i])]_vars

\* C2, the case: a mutate request has been answered 400 "Insufficient flux"
\* and the caller still owns a base item and a component, whose mutation
\* costs more than the flux the caller still has.
MutateRejectedForFlux ==
    /\ resp.kind = "mutate"
    /\ resp.status = 400
    /\ resp.message = "Insufficient flux"
    /\ \E k \in DOMAIN gameStates, b \in DOMAIN fragments, c \in DOMAIN fragments :
          /\ gameStates[k].userId = resp.session
          /\ fragments[b].gameStateId = gameStates[k].id
          /\ fragments[c].gameStateId = gameStates[k].id
          /\ fragments[b].type = "base_item"
          /\ fragments[c].type = "component"
          /\ gameStates[k].flux < calculateMutationCost(fragments[b], <<fragments[c]>>)

\* C3: for every accepted mutate request, whatever the success draw: the
\* update writes the flux the request read less exactly
\* calculateMutationCost(base, components); when the request is answered the
\* base and every listed component are gone from storage; a failed request
\* creates no fragment and a successful one exactly one.
AcceptedMutateEffects ==
    [][\A i \in Slots :
          /\ (reqs[i].pc = "mutate_update" /\ reqs'[i] # reqs[i]) =>
                /\ \E k \in DOMAIN gameStates' : gameStates'[k].userId = reqs[i].userId
                /\ \A k \in DOMAIN gameStates' :
                      gameStates'[k].userId = reqs[i].userId =>
                         gameStates'[k].flux = reqs[i].gameState.flux
                             - calculateMutationCost(reqs[i].baseFragment,
                                                     reqs[i].componentFragments)
          /\ (reqs[i].pc \in {"mutate_delete", "mutate_create"} /\ reqs'[i].pc = "idle") =>
                /\ reqs[i].baseFragment.id \notin DOMAIN fragments'
                /\ \A k \in DOMAIN reqs[i].componentFragments :
                      reqs[i].componentFragments[k].id \notin DOMAIN fragments'
                /\ IF reqs[i].success
                   THEN /\ reqs[i].pc = "mutate_create"
                        /\ Cardinality(DOMAIN fragments' \ DOMAIN fragments) = 1
                   ELSE /\ reqs[i].pc = "mutate_delete"
                        /\ DOMAIN fragments' \subseteq DOMAIN fragments
          /\ (reqs[i].pc \in {"mutate_check", "mutate_update", "mutate_delete"}
                 /\ reqs'[i] # reqs[i]) =>
                DOMAIN fragments' \subseteq DOMAIN fragments]_vars

\* C3, the case: a mutation of a common base and a common component has
\* succeeded after two spins; flux is 1000 - 25 - 25 - 250 and the result is
\* the only fragment left.
MutationSucceeded ==
    /\ resp.kind = "mutate"
    /\ resp.status = 200
    /\ \E k \in DOMAIN gameStates : gameStates[k].flux = 700
    /\ Cardinality(DOMAIN fragments) = 1
    /\ \E id \in DOMAIN fragments : Head(fragments[id].name) \in {"Mutated", "Evolved"}

\* ------------------------------------------------------------------------
\* Properties of performMutation (SpecMutation)
\* ------------------------------------------------------------------------

\* the number of implicit mods over all components
TotalMods(components) ==
    SumSeq([k \in DOMAIN components |-> Len(components[k].implicitMods)])

\* "<componentName> - <modName>" for every mod, in component input order
\* and, within a component, in mod order
ModsInOrder(components) ==
    Concat([k \in DOMAIN components |->
               [j \in DOMAIN components[k].implicitMods |->
                   <<components[k].name, components[k].implicitMods[j].name>>]])

AffixNames(affixes) == [j \in DOMAIN affixes |-> affixes[j].name]

\* C4 as stated: the affixes of the fragment performMutation returns are as
\* many as the implicit mods of all components, one per mod, in component
\* input order and mod order, for every accepted base, a result of an
\* earlier mutation included.
AffixesAreComponentMods ==
    last.op = "mutate" =>
        /\ Len(last.result.affixes) = TotalMods(last.components)
        /\ AffixNames(last.result.affixes) = ModsInOrder(last.components)

\* C4 amended: the affixes of the result are the affixes of the base
\* fragment, unchanged and in place, followed by one affix per implicit mod
\* of the components, in component input order and mod order; their number
\* is the base's affix count plus the total mod count.
AffixesAreBaseThenComponentMods ==
    last.op = "mutate" =>
        LET affixes == last.result.affixes
            kept == Len(last.base.affixes)
        IN  /\ Len(affixes) = kept + TotalMods(last.components)
            /\ SubSeq(affixes, 1, kept) = last.base.affixes
            /\ AffixNames(SubSeq(affixes, kept + 1, Len(affixes)))
                   = ModsInOrder(last.components)

\* C4, the case: the base is the result of an earlier mutation and carries
\* affixes, and a list of two components is applied to it.
MutatedBaseMutatedAgain ==
    /\ last.op = "mutate"
    /\ last.base.affixes # <<>>
    /\ Len(last.components) = 2
    /\ Len(last.result.affixes) > TotalMods(last.components)

\* ------------------------------------------------------------------------
\* Properties of the quote (SpecQuote); rates in hundredths
\* ------------------------------------------------------------------------

DoublingTable(rarity) ==
    IF rarity \in RaritySet THEN Pow(2, RarityIndex(rarity) - 1) ELSE 1

\* C6: the cost is 100 + 100 m(base rarity) + the sum over the components
\* of 50 m(component rarity), m the doubling table (1 for an unknown
\* rarity); a common base with one common component costs 250.
CostFormula ==
    last.op = "quote" =>
        /\ last.fluxCost = 100 + 100 * DoublingTable(last.baseRarity)
               + SumSeq([k \in DOMAIN last.componentRarities |->
                            50 * DoublingTable(last.componentRarities[k])])
        /\ (last.baseRarity = "common" /\ last.componentRarities = <<"common">>)
               => last.fluxCost = 250

\* C6, the case: a base of unknown rarity with a void_touched and a rare
\* component costs 100 + 100 + 3200 + 200.
CostOfMixedQuote ==
    /\ last.op = "quote"
    /\ last.baseRarity = "unknown"
    /\ last.componentRarities = <<"void_touched", "rare">>
    /\ last.fluxCost = 3600

\* ------------------------------------------------------------------------
\* Properties of VoidRNG (SpecRng, SpecCycle)
\* ------------------------------------------------------------------------

\* C7: two instances constructed with the same explicit integer seed, 0
\* included, return the same next() values call by call, whatever the times
\* at which they were constructed.
SameSeedSameSequence ==
    genA.seedArg # <<>> =>
        \A j \in DOMAIN genA.values \cap DOMAIN genB.values :
            genA.values[j] = genB.values[j]

\* C8: for every integer seed, negative ones included, every next() value v
\* satisfies 0 <= v < 1 (v is values[j] over Modulus).
NextInUnitInterval ==
    \A j \in DOMAIN genA.values :
        /\ 0 <= genA.values[j]
        /\ genA.values[j] < Modulus

\* the cumulative weight up to and including item k
CumulativeWeight(items, k) == SumSeq([j \in 1 .. k |-> items[j].weight])

\* C9: for non-negative weights that are not all zero, weightedChoice never
\* returns an item whose cumulative weight is zero; it returns the first
\* item whose cumulative weight is >= the drawn value r = next() * total;
\* and it consumes exactly one next() value.
ChoiceHasWeight ==
    (choice.items # <<>> /\ \E k \in DOMAIN choice.items : choice.items[k].weight > 0) =>
        LET items == choice.items
            total == CumulativeWeight(items, Len(items))
            r == next(choice.seed) * total      \* r as numerator over Modulus
        IN  /\ CumulativeWeight(items, choice.item) > 0
            /\ CumulativeWeight(items, choice.item) * Modulus >= r
            /\ \A k \in 1 .. choice.item - 1 :
                   CumulativeWeight(items, k) * Modulus < r
            /\ choice.after = next(choice.seed)

\* C10: over the generator's full cycle, rollRarity(0) yields common,
\* uncommon, rare, epic, legendary, mythic and void_touched with frequencies
\* 80%, 15%, 5%, 1%, 0.1%, 0.005% and 0.0005%.  Frequencies are in units of
\* 1/200000 (0.0005%); the cycle has 729/625 draws per unit, so a tier's
\* count times 625 is compared with its frequency times 729, within a tenth
\* of the frequency or one draw, whichever is larger.
TierFrequencies ==
    cycle.draws = Modulus =>
        LET claimed == [common |-> 160000, uncommon |-> 30000, rare |-> 10000,
                        epic |-> 2000, legendary |-> 200, mythic |-> 10,
                        void_touched |-> 1]
            Off(r) == cycle.tally[r] * 625 - claimed[r] * 729
        IN  \A r \in RaritySet :
                /\ Off(r) <= Max((claimed[r] * 729) \div 10, 625)
                /\ 0 - Off(r) <= Max((claimed[r] * 729) \div 10, 625)

\* ------------------------------------------------------------------------
\* Properties of the fragment generator (SpecGen, SpecMods, SpecMutation)
\* ------------------------------------------------------------------------

\* the generator state after k calls of next()
RECURSIVE AfterDraws(_, _)
AfterDraws(seed, k) == IF k = 0 THEN seed ELSE AfterDraws(next(seed), k - 1)

\* C11: the draft generateFragment returns and the state it leaves the
\* generator in are fixed by the generator state and rarityOddsLevel alone,
\* the draws being made in the order type, rarity, base stats, implicit
\* mods, name: the type is chosen by the first draw, the rarity rolled by
\* the second, the base stats take the next draws, one per stat, the
\* implicit mods the draws after those, and the name of a type that has a
\* name pool the one draw after the mods, which is the last.  The draft has
\* no affixes, is not corrupted and has quantity 1.
FragmentDrawnInOrder ==
    last.op = "fragment" =>
        LET d == last.draft
            afterStats == AfterDraws(last.seed, 2 + Len(d.baseStats))
            m == generateImplicitMods(afterStats, d.rarity)
            names == NamePool(d.type)
        IN  /\ d.type = weightedChoice(last.seed, typeWeights).item
            /\ d.rarity = rollRarity(AfterDraws(last.seed, 1),
                                     (last.level - 1) * 500).rarity
            /\ d.baseStats = generateBaseStats(AfterDraws(last.seed, 2),
                                               d.rarity, d.type).stats
            /\ d.implicitMods = m.mods
            /\ d.name = rarityPrefixes(d.rarity) \o
                        << IF names = <<>> THEN "Mysterious Blueprint"
                           ELSE names[randomInt(m.seed, 0, Len(names) - 1).v + 1] >>
            /\ last.after = IF names = <<>> THEN m.seed ELSE next(m.seed)
            /\ d.affixes = <<>>
            /\ d.isCorrupted = FALSE
            /\ d.quantity = 1

\* C11, the case: an epic base item, which takes three stat draws, with
\* three implicit mods, generated at a raised rarityOddsLevel
EpicBaseItemGenerated ==
    /\ last.op = "fragment"
    /\ last.level > 1
    /\ last.draft.type = "base_item"
    /\ last.draft.rarity = "epic"
    /\ Len(last.draft.baseStats) = 3
    /\ Len(last.draft.implicitMods) = 3


\* the per-rarity bounds on the number of implicit mods
ModCountBounds ==
    [common |-> <<1, 1>>, uncommon |-> <<1, 2>>, rare |-> <<2, 2>>,
     epic |-> <<2, 3>>, legendary |-> <<3, 3>>, mythic |-> <<3, 4>>,
     void_touched |-> <<4, 4>>]

\* C12: for every generator state and every rarity generateImplicitMods
\* returns, after the one draw of the count, two draws per mod and at most
\* ten rejected names, a list whose length lies within the bounds of the
\* rarity and whose names are pairwise distinct.
ModsBoundedAndDistinct ==
    last.op = "mods" =>
        LET mods == last.mods
            n == Len(mods)
        IN  /\ ModCountBounds[last.rarity][1] <= n
            /\ n <= ModCountBounds[last.rarity][2]
            /\ \A i, j \in 1 .. n : mods[i].name = mods[j].name => i = j
            /\ \E rejected \in 0 .. 10 :
                   last.after = AfterDraws(last.seed, 1 + 2 * n + rejected)

\* C12, the case: four mods of a void_touched fragment, drawn with at least
\* one name rejected because it was already selected
FourModsWithRejection ==
    /\ last.op = "mods"
    /\ last.rarity = "void_touched"
    /\ Len(last.mods) = 4
    /\ last.after # AfterDraws(last.seed, 9)


\* C13: every base stat of every fragment generateFragment produces, and of
\* every fragment performMutation produces from such fragments, is an
\* integer.  Stat values are in halves, so an integer is an even value.
BaseStatsAreIntegers ==
    /\ \A k \in DOMAIN pool :
           \A i \in DOMAIN pool[k].baseStats : pool[k].baseStats[i].value % 2 = 0
    /\ last.op = "mutate" =>
           \A i \in DOMAIN last.result.baseStats :
               last.result.baseStats[i].value % 2 = 0


\* ------------------------------------------------------------------------
\* Properties of the handlers run one request at a time (SpecPlay)
\* ------------------------------------------------------------------------

\* the device levels of a game_states row
Levels(row) ==
    <<row.spinSpeedLevel, row.rarityOddsLevel, row.fluxCostLevel,
      row.mutationSlotsLevel>>

\* a request of the given kind of the player is received in this step
Received(kind) ==
    /\ reqs[1].pc = "idle"
    /\ received' = received + 1
    /\ IF reqs'[1].pc = "idle" THEN resp'.kind = kind ELSE reqs'[1].kind = kind

\* it is received and answered at once with the given status and message
TurnedAway(kind, status, message) ==
    /\ Received(kind)
    /\ reqs'[1].pc = "idle"
    /\ resp'.status = status
    /\ resp'.message = message

\* the spin cost as the specification states it
StatedSpinCost(level) ==
    IF 25 - (level - 1) * 5 > 5 THEN 25 - (level - 1) * 5 ELSE 5

\* C14: the spin cost is max(25 - (fluxCostLevel - 1) * 5, 5).  A spin
\* requested with flux below the cost is turned away and leaves the game
\* states and the fragments as they are; a spin is turned away for its flux
\* only when the flux is below the cost.  A spin requested with flux at or
\* above the cost, run with no other request in between, adds exactly one
\* fragment, owned by the caller's game state, and then lowers the flux by
\* exactly the cost, raises totalSpins by exactly 1 and changes no level and
\* no other row.
SpinEffects ==
    [][ LET before == gameStates[1]
            cost == StatedSpinCost(before.fluxCostLevel)
        IN  /\ (Received("spin") /\ reqs'[1].pc = "spin_create") =>
                   /\ before.flux >= cost
                   /\ gameStates' = gameStates /\ fragments' = fragments
            /\ TurnedAway("spin", 400, "Insufficient flux") =>
                   /\ before.flux < cost
                   /\ gameStates' = gameStates /\ fragments' = fragments
            /\ (Received("spin") /\ before.flux < cost) =>
                   TurnedAway("spin", 400, "Insufficient flux")
            /\ (reqs[1].pc = "spin_create" /\ reqs'[1].pc = "spin_update") =>
                   /\ reqs[1].gameState = before
                   /\ \E id \in DOMAIN fragments' \ DOMAIN fragments :
                          /\ DOMAIN fragments' = DOMAIN fragments \cup {id}
                          /\ fragments'[id].gameStateId = before.id
                   /\ \A id \in DOMAIN fragments : fragments'[id] = fragments[id]
                   /\ gameStates' = gameStates
            /\ (reqs[1].pc = "spin_update" /\ reqs'[1].pc = "idle") =>
                   /\ reqs[1].gameState = before
                   /\ gameStates'[1].flux = before.flux - cost
                   /\ gameStates'[1].totalSpins = before.totalSpins + 1
                   /\ Levels(gameStates'[1]) = Levels(before)
                   /\ gameStates'[2] = gameStates[2]
                   /\ fragments' = fragments
                   /\ resp'.status = 200 ]_vars

\* C14, the case: a spin at fluxCostLevel 6, where the cost is at its floor
\* of 5, has taken a balance of 5 to 0
SpinAtCostFloor ==
    /\ resp.kind = "spin"
    /\ resp.status = 200
    /\ gameStates[1].fluxCostLevel = 6
    /\ gameStates[1].flux = 0
    /\ gameStates[1].totalSpins = 1
    /\ Cardinality(DOMAIN fragments) = 3


\* the shatter multipliers as the specification states them
StatedShatterMultiplier(rarity) ==
    LET table == [common |-> 1, uncommon |-> 3, rare |-> 8, epic |-> 20,
                  legendary |-> 50, mythic |-> 125, void_touched |-> 300]
    IN  IF rarity \in DOMAIN table THEN table[rarity] ELSE 1

\* ids of the fragments of a game state
OwnedIds(gameStateId) ==
    {id \in DOMAIN fragments : fragments[id].gameStateId = gameStateId}

\* C15: shattering a fragment the caller owns raises the caller's flux by
\* exactly 5 * s(rarity) * quantity, s being 1, 3, 8, 20, 50, 125, 300 by
\* rarity and 1 for a rarity not in the table, and removes that fragment and
\* no other; calculateShatterValue of a rare fragment of quantity 2 is 80.
\* A shatter request naming an id that is not among the caller's fragments
\* is answered 404 and changes neither a game state nor a fragment.
ShatterEffects ==
    [][ /\ calculateShatterValue([rarity |-> "rare", quantity |-> 2]) = 80
        /\ \A r \in QuoteRarities, q \in 1 .. 3 :
               calculateShatterValue([rarity |-> r, quantity |-> q])
                   = 5 * StatedShatterMultiplier(r) * q
        /\ Received("shatter") =>
               gameStates' = gameStates /\ fragments' = fragments
        /\ reqs[1].pc = "shatter_find" =>
               /\ gameStates' = gameStates /\ fragments' = fragments
               /\ IF reqs[1].fragmentId \in OwnedIds(1)
                  THEN reqs'[1].pc = "shatter_update"
                  ELSE reqs'[1].pc = "idle" /\ resp'.status = 404
        /\ reqs[1].pc = "shatter_update" =>
               LET fragment == fragments[reqs[1].fragment.id]
               IN  /\ gameStates'[1] =
                          [gameStates[1] EXCEPT !.flux = @ +
                              5 * StatedShatterMultiplier(fragment.rarity)
                                * fragment.quantity]
                   /\ gameStates'[2] = gameStates[2]
                   /\ fragments' = fragments
        /\ reqs[1].pc = "shatter_delete" =>
               /\ DOMAIN fragments' = DOMAIN fragments \ {reqs[1].fragment.id}
               /\ reqs[1].fragment.id \in OwnedIds(1)
               /\ \A id \in DOMAIN fragments' : fragments'[id] = fragments[id]
               /\ gameStates' = gameStates
               /\ resp'.status = 200 ]_vars

\* C15, the case: the player's rare modifier has been shattered for 40 flux
RareShattered ==
    /\ resp.kind = "shatter"
    /\ resp.status = 200
    /\ received = 1
    /\ 1 \notin DOMAIN fragments
    /\ gameStates[1].flux - 40 \in PlayFlux
    /\ gameStates[1].flux - 5 \notin PlayFlux


\* ------------------------------------------------------------------------
\* Properties of calculateDeviceUpgradeCost (SpecCost)
\* ------------------------------------------------------------------------

\* the base costs as the specification states them
StatedBaseCost ==
    [spinSpeed |-> 500, rarityOdds |-> 1200, fluxCost |-> 800,
     mutationSlots |-> 2500]

\* C16: for each of the four tracks and every level >= 1 the upgrade cost is
\* floor(baseCost * 1.5^(level - 1)), with the base costs 500, 1200, 800 and
\* 2500 and the level of that track, whatever the other levels: the cost c
\* is the integer with c * 2^(level-1) <= baseCost * 3^(level-1)
\* < (c + 1) * 2^(level-1).  spinSpeed costs 500 at level 1 and 1125 at
\* level 3, and the cost at the next level is strictly higher.
UpgradeCostFormula ==
    (last.op = "price" /\ last.upgradeType \in UpgradeTypes) =>
        LET e == last.level - 1
            scaled == StatedBaseCost[last.upgradeType] * Pow(3, e)
        IN  /\ last.cost * Pow(2, e) <= scaled
            /\ scaled < (last.cost + 1) * Pow(2, e)
            /\ last.costAbove > last.cost
            /\ (last.upgradeType = "spinSpeed" /\ last.level = 1) => last.cost = 500
            /\ (last.upgradeType = "spinSpeed" /\ last.level = 3) => last.cost = 1125

\* C16, the case: a track priced at a level where 1.5^(level - 1) is not a
\* whole number and the floor cuts a half off, with the other tracks at
\* another level
FlooredUpgradeCost ==
    /\ last.op = "price"
    /\ last.upgradeType = "spinSpeed"
    /\ last.level = 4
    /\ last.others = 1
    /\ last.cost = 1687


\* the level field of a track
LevelField(upgradeType) ==
    CASE upgradeType = "spinSpeed" -> "spinSpeedLevel"
      [] upgradeType = "rarityOdds" -> "rarityOddsLevel"
      [] upgradeType = "fluxCost" -> "fluxCostLevel"
      [] upgradeType = "mutationSlots" -> "mutationSlotsLevel"

\* the cost of a track at a level as the specification states it
StatedUpgradeCost(upgradeType, level) ==
    (StatedBaseCost[upgradeType] * Pow(3, level - 1)) \div Pow(2, level - 1)

\* the track an upgrade request in flight names
RequestedTrack ==
    CHOOSE upgradeType \in UpgradeTypes :
        LevelField(upgradeType) \in DOMAIN reqs[1].updates

\* C17: an upgrade of track T that goes through raises the level of T by
\* exactly 1, lowers flux by exactly the cost of T at the level before, and
\* leaves the other three levels, totalSpins, the other rows and all
\* fragments as they were; an upgrade of one of the four tracks requested
\* with flux below its cost is turned away and changes nothing, and one
\* requested with flux at or above the cost goes through.  In every step
\* every level is at least 1 and does not decrease.
UpgradeEffects ==
    [][ LET before == gameStates[1]
        IN  /\ Received("upgrade") =>
                   /\ gameStates' = gameStates /\ fragments' = fragments
                   /\ reqs'[1].pc = "idle" => resp'.status = 400
            /\ \A upgradeType \in UpgradeTypes :
                   UpgradeRequest(1, 1, upgradeType) =>
                       IF before.flux < StatedUpgradeCost(upgradeType,
                                            before[LevelField(upgradeType)])
                       THEN TurnedAway("upgrade", 400, "Insufficient flux")
                       ELSE /\ reqs'[1].pc = "upgrade_update"
                            /\ LevelField(upgradeType) \in DOMAIN reqs'[1].updates
            /\ reqs[1].pc = "upgrade_update" =>
                   LET field == LevelField(RequestedTrack)
                       cost == StatedUpgradeCost(RequestedTrack, before[field])
                   IN  /\ gameStates'[1] = [before EXCEPT !.flux = @ - cost,
                                                          ![field] = @ + 1]
                       /\ gameStates'[2] = gameStates[2]
                       /\ fragments' = fragments
                       /\ resp'.status = 200
            /\ \A k \in DOMAIN gameStates :
                   \A j \in 1 .. 4 :
                       /\ Levels(gameStates[k])[j] >= 1
                       /\ Levels(gameStates'[k])[j] >= Levels(gameStates[k])[j] ]_vars

\* C17, the case: spinSpeed has been raised from level 3 to 4 for 1125 of a
\* balance of 5000, by a player whose fluxCost is at level 6
SpinSpeedUpgraded ==
    /\ resp.kind = "upgrade"
    /\ resp.status = 200
    /\ received = 1
    /\ gameStates[1].spinSpeedLevel = 4
    /\ gameStates[1].fluxCostLevel = 6
    /\ gameStates[1].flux = 3875

\* C18: for every flux balance an upgrade request that names a track other
\* than the four is answered 400 "Invalid upgrade type" and leaves the game
\* states as they are.
UnknownTrackIsInvalidInput ==
    [][ UpgradeRequest(1, 1, "unknown") =>
            /\ TurnedAway("upgrade", 400, "Invalid upgrade type")
            /\ gameStates' = gameStates ]_vars

\* the bounds of a listing
ListingInBounds(listing) ==
    /\ listing.supply >= 0
    /\ listing.demand <= 300
    /\ listing.currentPrice >= 1

\* C19: the listing update of a sale changes only the listing of the sold
\* fragment's type and rarity, to supply' = max(0, supply - 1),
\* demand' = min(3, demand + 0.01) and currentPrice' = max(1, round(
\* currentPrice * (1 + 0.01 * (1 - demand')))), and leaves its basePrice and
\* every other listing as they were; no other step changes a listing; and
\* in every state every listing has supply >= 0, demand <= 3 and
\* currentPrice >= 1.  Demand is in hundredths; c = round(x) is stated as
\* c - 1/2 <= x < c + 1/2.
ListingUpdateOfSale ==
    [][ /\ SellMarket(1) =>
               LET sold == reqs[1].fragment
                   id == <<sold.type, sold.rarity>>
                   old == listings[id]
                   new == listings'[id]
                   scaled == old.currentPrice * (10100 - new.demand)
               IN  /\ new.supply = (IF old.supply - 1 > 0 THEN old.supply - 1 ELSE 0)
                   /\ new.demand = (IF old.demand + 1 < 300 THEN old.demand + 1 ELSE 300)
                   /\ \/ /\ 10000 * new.currentPrice - 5000 <= scaled
                         /\ scaled < 10000 * new.currentPrice + 5000
                      \/ new.currentPrice = 1 /\ scaled < 5000
                   /\ new.basePrice = old.basePrice
                   /\ new.fragmentType = old.fragmentType
                   /\ new.rarity = old.rarity
                   /\ \A other \in DOMAIN listings \ {id} :
                          listings'[other] = listings[other]
                   /\ DOMAIN listings' = DOMAIN listings
        /\ listings' # listings => SellMarket(1)
        /\ \A id \in DOMAIN listings : ListingInBounds(listings[id])
        /\ \A id \in DOMAIN listings' : ListingInBounds(listings'[id]) ]_vars

\* C19, the case: a legendary component sold into its listing after the 100
\* sales that took the supply to 0 and the demand to 3: the supply stays 0,
\* the demand stays 3 and the price falls again
SoldAtDemandCap ==
    LET id == <<"component", "legendary">>
    IN  /\ resp.kind = "sell"
        /\ resp.status = 200
        /\ 1 \notin DOMAIN fragments
        /\ listings[id].supply = 0
        /\ listings[id].demand = 300
        /\ listings[id].currentPrice
               < SoldTimes(initializeMarketplace[id], 100).currentPrice

\* C20: selling a fragment the caller owns raises the caller's flux by
\* exactly max(1, round(p * quantity)), p being the currentPrice of the
\* listing of the fragment's type and rarity as it is before this sale's
\* listing update, or 10 when there is no such listing, and removes that
\* fragment and no other; when there is no such listing the sale ends with
\* the listings as they were; when the listing update fails the sale is
\* answered 200 all the same and the credit and the removal stay.
SaleEffects ==
    [][ /\ reqs[1].pc = "sell_update" =>
               LET sold == reqs[1].fragment
                   id == <<sold.type, sold.rarity>>
                   p == IF id \in DOMAIN listings THEN listings[id].currentPrice
                        ELSE 10
                   credit == IF p * sold.quantity > 1 THEN p * sold.quantity ELSE 1
               IN  /\ sold.id \in OwnedIds(1)
                   /\ gameStates'[1] = [gameStates[1] EXCEPT !.flux = @ + credit]
                   /\ gameStates'[2] = gameStates[2]
                   /\ fragments' = fragments /\ listings' = listings
        /\ reqs[1].pc = "sell_delete" =>
               LET sold == reqs[1].fragment
               IN  /\ DOMAIN fragments' = DOMAIN fragments \ {sold.id}
                   /\ sold.id \in DOMAIN fragments
                   /\ \A id \in DOMAIN fragments' : fragments'[id] = fragments[id]
                   /\ gameStates' = gameStates /\ listings' = listings
                   /\ <<sold.type, sold.rarity>> \notin DOMAIN listings =>
                          reqs'[1].pc = "idle" /\ resp'.status = 200
        /\ SellMarketFails(1) =>
               /\ resp'.status = 200
               /\ reqs[1].fragment.id \notin DOMAIN fragments'
               /\ gameStates'[1].flux = reqs[1].gameState.flux + reqs[1].price
               /\ gameStates' = gameStates /\ fragments' = fragments ]_vars

\* C20, the case: the player's legendary component has been sold at the
\* price its listing had after 99 earlier sales, and the listing update has
\* failed, so that the listing is as it was
SoldWithFailedListingUpdate ==
    LET id == <<"component", "legendary">>
        before == SoldTimes(initializeMarketplace[id], 99)
    IN  /\ resp.kind = "sell"
        /\ resp.status = 200
        /\ received = 1
        /\ 1 \notin DOMAIN fragments
        /\ listings[id] = before
        /\ before.currentPrice < before.basePrice
        /\ gameStates[1].flux - before.currentPrice \in PlayFlux


\* ------------------------------------------------------------------------
\* Properties of performMutation on every rarity (SpecEvolve)
\* ------------------------------------------------------------------------

\* C21: the rarity of the fragment performMutation returns is the rarity of
\* the base or the next tier of the order common, uncommon, rare, epic,
\* legendary, mythic, void_touched; a void_touched base stays void_touched.
\* The name of the result starts with "Evolved" exactly when the rarity was
\* raised, and otherwise is "Mutated" followed by the name of the base.
RarityRaisedByAtMostOneTier ==
    last.op = "mutate" =>
        LET from == RarityIndex(last.base.rarity)
            to == RarityIndex(last.result.rarity)
        IN  /\ from >= 1
            /\ to = from \/ to = from + 1
            /\ last.base.rarity = "void_touched" =>
                   last.result.rarity = "void_touched"
            /\ Head(last.result.name) = "Evolved" <=> to = from + 1
            /\ to = from => last.result.name = <<"Mutated">> \o last.base.name

\* C21, the cases: a void_touched base has been mutated and stays
\* void_touched under the name "Mutated ..."
VoidTouchedBaseMutated ==
    /\ last.op = "mutate"
    /\ last.base.rarity = "void_touched"
    /\ last.result.rarity = "void_touched"
    /\ Head(last.result.name) = "Mutated"


\* ------------------------------------------------------------------------
\* Properties of the server under interleaving (Spec)
\* ------------------------------------------------------------------------

\* the game_states rows of a user
RowsOf(rows, userId) == {k \in DOMAIN rows : rows[k].userId = userId}

\* C22: after any interleaving of the handlers' steps storage holds at most
\* one game state for each user, and only the creating step of a game-state
\* request adds a row; no step removes one.
OneGameStatePerUser ==
    [][ /\ \A s \in Sessions : Cardinality(RowsOf(gameStates', s)) <= 1
        /\ Len(gameStates') >= Len(gameStates)
        /\ Len(gameStates') > Len(gameStates) =>
               \E i \in Slots : /\ reqs[i].pc = "gamestate_create"
                                /\ reqs'[i].pc = "idle"
                                /\ Len(gameStates') = Len(gameStates) + 1 ]_vars

\* ------------------------------------------------------------------------
\* Properties of the device statistics (SpecStats); bonuses in millionths
\* ------------------------------------------------------------------------

\* C23: for every rarityOddsLevel of at least 1, the rarityBonus the
\* server's getDeviceStats reports and the rarityBonus the client's
\* getDeviceStats reports both equal (level - 1) * 0.0005, the bonus with
\* which generateFragment rolls the rarity, and the fluxCost the client
\* reports equals the cost the server charges for a spin.
DeviceStatsAgree ==
    last.op = "stats" =>
        /\ last.server.rarityBonus = (last.gameState.rarityOddsLevel - 1) * 500
        /\ last.serverRolled = last.generated
        /\ last.client.rarityBonus = (last.gameState.rarityOddsLevel - 1) * 500
        /\ last.clientRolled = last.generated
        /\ last.client.fluxCost = last.spinCost

\* ------------------------------------------------------------------------
\* Properties of overlapping requests of one session (Spec)
\* ------------------------------------------------------------------------

\* all stored fragments belong to the game state and none was ever deleted:
\* the requests answered so far that changed storage for this game state
\* are its creation and successful spins, one a fragment
OnlySpun(gameState) ==
    /\ \A i \in Slots : reqs[i].pc = "idle"
    /\ RowsOf(gameStates, gameState.userId) = {gameState.id}
    /\ Levels(gameState) = <<1, 1, 1, 1>>
    /\ DOMAIN fragments = 1 .. nextFragId
    /\ \A id \in DOMAIN fragments : fragments[id].gameStateId = gameState.id

\* C24: the spin handler is atomic on its game state: once k spins of one
\* session have succeeded, in whatever order their steps were interleaved,
\* the stored flux is the initial 1000 less k spin costs and the stored
\* totalSpins is k.
SpinsAllCharged ==
    \A n \in DOMAIN gameStates :
        OnlySpun(gameStates[n]) =>
            /\ gameStates[n].flux = 1000 - nextFragId * spinCost(gameStates[n])
            /\ gameStates[n].totalSpins = nextFragId
\* the fragments a request has looked up and is about to consume: it has
\* passed its lookup and its checks, will be answered 200, and has not yet
\* deleted them
Held(r) ==
    CASE r.pc \in {"shatter_update", "shatter_delete",
                   "sell_listings", "sell_update", "sell_delete"} -> {r.fragment.id}
      [] r.pc = "mutate_update" ->
             {r.consumedFragmentIds[k] : k \in DOMAIN r.consumedFragmentIds}
      [] r.pc = "mutate_delete" ->
             {r.consumedFragmentIds[k] : k \in r.deleted + 1 .. Len(r.consumedFragmentIds)}
                 \ {r.consumedFragmentIds[k] : k \in 1 .. r.deleted}
      [] OTHER -> {}

\* C25: a stored fragment pays out at most once: of the shatter, sell and
\* mutate requests that name one fragment id at most one gets past its
\* lookup to a successful answer, so no fragment is held by two requests at
\* once and a fragment a request holds is still stored; the flux credited
\* for the fragment is then one shatter value or one sale price.
FragmentPaysOutOnce ==
    /\ \A i \in Slots : Held(reqs[i]) \subseteq DOMAIN fragments
    /\ \A i, j \in Slots : i # j => Held(reqs[i]) \cap Held(reqs[j]) = {}

\* ------------------------------------------------------------------------
\* Properties of two players' data (SpecTwoPlayers)
\* ------------------------------------------------------------------------

\* the user a stored fragment belongs to
OwnerOf(fragment) == gameStates[fragment.gameStateId].userId

\* the step is one of the request in slot i
StepOf(i) == reqs[i].pc # "idle" /\ reqs'[i] # reqs[i]

\* the step leaves every game state and every fragment of the players other
\* than userId as it is, and adds none to them
OthersUntouched(userId) ==
    /\ \A k \in DOMAIN gameStates :
          gameStates[k].userId # userId => gameStates'[k] = gameStates[k]
    /\ \A k \in DOMAIN gameStates' \ DOMAIN gameStates :
          gameStates'[k].userId = userId
    /\ \A id \in DOMAIN fragments :
          OwnerOf(fragments[id]) # userId =>
              id \in DOMAIN fragments' /\ fragments'[id] = fragments[id]
    /\ \A id \in DOMAIN fragments' \ DOMAIN fragments :
          OwnerOf(fragments'[id]) = userId

\* the fragment ids the request in slot i names
NamedIds(r) ==
    CASE r.pc \in {"shatter_find", "sell_find"} -> {r.fragmentId}
      [] r.pc = "mutate_check" ->
             {r.baseFragmentId}
                 \cup {r.componentFragmentIds[k] : k \in DOMAIN r.componentFragmentIds}
      [] OTHER -> {}

\* the request in slot i is at its lookup and names a stored fragment of a
\* game state other than the caller's
NamesForeign(i) ==
    \E id \in NamedIds(reqs[i]) \cap DOMAIN fragments :
        fragments[id].gameStateId # reqs[i].gameState.id

\* the step answers the request in slot i with the status and changes
\* nothing in storage
RejectedUnchanged(i, statuses) ==
    /\ reqs'[i].pc = "idle"
    /\ resp'.status \in statuses
    /\ UNCHANGED <<gameStates, fragments, listings>>

\* the isolation of a handler step: it changes only the caller's game state
\* and fragments, receiving a request changes nothing, and the fragments a
\* request goes on with belong to the caller's game state
CallerOnly ==
    /\ \A i \in Slots :
          StepOf(i) =>
              /\ OthersUntouched(reqs[i].userId)
              /\ \A id \in Held(reqs'[i]) \cap DOMAIN fragments :
                    fragments[id].gameStateId = reqs[i].gameState.id
    /\ (\A i \in Slots : reqs[i].pc = "idle") =>
           UNCHANGED <<gameStates, fragments, listings>>

AcceptedMutationDistinct ==
    \A i \in Slots :
        reqs[i].pc = "mutate_update" =>
            LET ids == reqs[i].consumedFragmentIds
                stored == {ids[k] : k \in DOMAIN ids} \cap DOMAIN fragments
            IN  /\ \A j, k \in DOMAIN ids : j # k => ids[j] # ids[k]
                /\ Cardinality(stored) = 1 + Len(reqs[i].componentFragments)

\* ------------------------------------------------------------------------
\* Properties of the stats of a mutation (SpecMutation)
\* ------------------------------------------------------------------------

\* the names of the stats
StatKeys(stats) == {stats[k].stat : k \in DOMAIN stats}

\* C28: for a base and components that come from generateFragment or from
\* earlier mutations, the fragment performMutation returns has the
\* baseStats of the base: a component has the stat enhancement (a modifier
\* the stat modifier) and a base item power, defense and speed, no stat
\* name is shared, and the increment of floor(value * 0.5) is never applied.
MutationKeepsBaseStats ==
    last.op = "mutate" =>
        /\ last.result.baseStats = last.base.baseStats
        /\ StatKeys(last.base.baseStats) = {"power", "defense", "speed"}
        /\ \A k \in DOMAIN last.components :
              /\ StatKeys(last.components[k].baseStats) \cap
                     StatKeys(last.base.baseStats) = {}
              /\ last.components[k].type = "component" =>
                     StatKeys(last.components[k].baseStats) = {"enhancement"}

\* C28, the case: the base is itself the result of a mutation and a
\* component with an enhancement of 2 or more (an increment of at least 1,
\* had the name matched) has been applied to it.
MutatedBaseEnhanced ==
    /\ last.op = "mutate"
    /\ Head(last.base.name) \in {"Mutated", "Evolved"}
    /\ \E k \in DOMAIN last.components :
          /\ last.components[k].type = "component"
          /\ last.components[k].baseStats[1].value \div 4 >= 1

\* ------------------------------------------------------------------------
\* Properties of the marketplace prices (SpecMarket)
\* ------------------------------------------------------------------------

\* a further sale leaves the price and the demand of the listing as they
\* are; the update computes both from these two alone, so every later sale
\* does the same
Settled(listing) ==
    /\ ListingUpdates(listing).currentPrice = listing.currentPrice
    /\ ListingUpdates(listing).demand = listing.demand

\* C29: from the seeded marketplace, after any sequence of sales every
\* listing's currentPrice is at most its basePrice, no sale raises a
\* currentPrice (also not that of modifier common, seeded with demand 0.9:
\* rounding gives 15 again), and after MaxSales sales of a listing its
\* currentPrice has stopped changing.
PricesFallAndSettle ==
    [][ \A id \in ListingIds :
           /\ listings[id].currentPrice <= listings[id].basePrice
           /\ listings'[id].currentPrice <= listings'[id].basePrice
           /\ listings'[id].currentPrice <= listings[id].currentPrice
           /\ last'.sales = MaxSales => Settled(listings'[last.id]) ]_vars

\* C29, the case: a listing has been sold to MaxSales times, its demand is
\* at the cap of 3 and its price has come down from its basePrice.
ListingSettledBelowBasePrice ==
    /\ last.op = "sale"
    /\ last.sales = MaxSales
    /\ listings[last.id].demand = 300
    /\ listings[last.id].currentPrice < listings[last.id].basePrice

\* ------------------------------------------------------------------------
\* Properties of the generator's cycle (SpecPeriod)
\* ------------------------------------------------------------------------

\* C30: from a state in 0 .. 233279 the generator is back in that state
\* for the first time after exactly 233280 draws, so the draws before visit
\* every residue once; within those draws rollRarity(0) returns
\* void_touched, and it does so at the residue 233279 only.
FullPeriod ==
    /\ cycle.seed \in 0 .. Modulus - 1
    /\ cycle.returns = (IF cycle.draws = Modulus THEN 1 ELSE 0)
    /\ cycle.voidTouched \subseteq {Modulus - 1}
    /\ cycle.draws = Modulus =>
           /\ cycle.seed = cycle.start
           /\ cycle.voidTouched = {Modulus - 1}

\* C30, the case: a full cycle has been drawn from state 0 and void_touched
\* has been returned in it.
CycleCompletedFromZero ==
    /\ cycle.start = 0
    /\ cycle.draws = Modulus
    /\ cycle.voidTouched # {}


=============================================================================
